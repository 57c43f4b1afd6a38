-------------------------- MODULE Declarations_proofs --------------------------
(* What is listed of a declaration is that declaration when it is loaded.    *)
EXTENDS RulePath, Declared, Induction

-----------------------------------------------------------------------------
(* Rates.                                                                    *)

(* A division without remainder is undone by a multiplication.               *)
LEMMA Exact ==
  ASSUME NEW n \in Nat, NEW d \in Nat \ {0}, n % d = 0
  PROVE  n \div d \in Nat /\ (n \div d) * d = n
  OBVIOUS

(* get_rate(), statement.c:427-444, with rate_to_bytes(),                    *)
(* parser_json.c:1728-1737: a limit or a quota listed in the largest unit    *)
(* that fits is read back as the same number of bytes.                       *)
THEOREM RateReadBack == \A bytes \in Nat : RateOf(RateJson(bytes)) = bytes
  <1> SUFFICES ASSUME NEW bytes \in Nat PROVE RateOf(RateJson(bytes)) = bytes
    OBVIOUS
  <1>1. CASE RateUnit(bytes) = "bytes"
    <2>1. RateBytes["bytes"] = 1
      BY DEF RateBytes, Units
    <2> QED
      BY <1>1, <2>1 DEF RateOf, RateJson
  <1>2. CASE RateUnit(bytes) = "kbytes"
    <2>1. RateBytes["kbytes"] = Kilo
      BY DEF RateBytes, Units
    <2>2. bytes % Kilo = 0 /\ Kilo \in Nat \ {0}
      BY <1>2 DEF RateUnit, Kilo
    <2>3. (bytes \div Kilo) * Kilo = bytes
      BY <2>2, Exact
    <2> QED
      BY <1>2, <2>1, <2>3 DEF RateOf, RateJson
  <1>3. CASE RateUnit(bytes) = "mbytes"
    <2>1. RateBytes["mbytes"] = Kilo * Kilo
      BY DEF RateBytes, Units
    <2>2. bytes % Kilo = 0 /\ (bytes \div Kilo) % Kilo = 0 /\ Kilo \in Nat \ {0}
      BY <1>3 DEF RateUnit, Kilo
    <2>3. bytes \div Kilo \in Nat /\ (bytes \div Kilo) * Kilo = bytes
      BY <2>2, Exact
    <2>4. ((bytes \div Kilo) \div Kilo) * Kilo = bytes \div Kilo
      BY <2>2, <2>3, Exact
    <2>5. bytes % (Kilo * Kilo) = 0
      BY <2>3, <2>4 DEF Kilo
    <2>6. (bytes \div (Kilo * Kilo)) * (Kilo * Kilo) = bytes
      <3>1. Kilo * Kilo \in Nat \ {0}
        BY DEF Kilo
      <3> QED
        BY <2>5, <3>1, Exact
    <2> QED
      BY <1>3, <2>1, <2>6 DEF RateOf, RateJson
  <1> QED
    BY <1>1, <1>2, <1>3 DEF RateUnit

-----------------------------------------------------------------------------
(* Names of priorities differ, and none of them is "none".                   *)
LEMMA SixPrios ==
  ASSUME NEW fam
  PROVE  /\ DOMAIN PriosOf(fam) \subseteq 1 .. 6
         /\ \A i \in DOMAIN PriosOf(fam) : PriosOf(fam)[i].val \in Int /\ PriosOf(fam)[i].str # "none"
         /\ \A i, j \in DOMAIN PriosOf(fam) : PriosOf(fam)[i].str = PriosOf(fam)[j].str => i = j
  <1>1. CASE fam = "bridge"
    BY <1>1 DEF PriosOf, BridgeStdPrios, Tag
  <1>2. CASE fam # "bridge"
    BY <1>2 DEF PriosOf, StdPrios, Tag
  <1> QED
    BY <1>1, <1>2

(* The least of some numbers is one of them.                                 *)
LEMMA MinIsMember ==
  ASSUME NEW S, S \subseteq 1 .. 6, S # {}
  PROVE  Min(S) \in S
  <1>1. \E x \in S : \A z \in S : x =< z
    <2>1. CASE 1 \in S
      BY <2>1
    <2>2. CASE 1 \notin S /\ 2 \in S
      BY <2>2
    <2>3. CASE 1 \notin S /\ 2 \notin S /\ 3 \in S
      BY <2>3
    <2>4. CASE 1 \notin S /\ 2 \notin S /\ 3 \notin S /\ 4 \in S
      BY <2>4
    <2>5. CASE 1 \notin S /\ 2 \notin S /\ 3 \notin S /\ 4 \notin S /\ 5 \in S
      BY <2>5
    <2>6. CASE 1 \notin S /\ 2 \notin S /\ 3 \notin S /\ 4 \notin S /\ 5 \notin S
      <3>1. ASSUME NEW x \in S PROVE x = 6
        <4>1. x \in 1 .. 6 /\ x # 1 /\ x # 2 /\ x # 3 /\ x # 4 /\ x # 5
          BY <2>6
        <4> QED
          BY <4>1
      <3>2. PICK x \in S : TRUE
        OBVIOUS
      <3>3. \A z \in S : x =< z
        BY <3>1
      <3> QED
        BY <3>2, <3>3
    <2> QED
      BY <2>1, <2>2, <2>3, <2>4, <2>5, <2>6
  <1> QED
    BY <1>1 DEF Min

(* prio2str(), rule.c:997-1040, with evaluate_priority(),                    *)
(* evaluate.c:3799-3846: whatever number a chain has, its family and its     *)
(* hook, the name and offset it is listed with are evaluated to that number  *)
(* and to no other.                                                          *)
THEOREM PriorityReadBack ==
  \A prio \in Int : \A fam, hook : EvaluatePriority(Prio2Str(prio, fam, hook), fam, hook) = {prio}
  <1> SUFFICES ASSUME NEW prio \in Int, NEW fam, NEW hook
               PROVE  EvaluatePriority(Prio2Str(prio, fam, hook), fam, hook) = {prio}
    OBVIOUS
  <1> DEFINE near == {i \in DOMAIN PriosOf(fam) : Magnitude(prio - PriosOf(fam)[i].val) <= Reach}
             tag == PriosOf(fam)[Min(near)]
  <1>1. CASE near = {} \/ ~Compat(tag.val, fam, hook)
    <2>1. Prio2Str(prio, fam, hook) = [name |-> "none", off |-> prio]
      BY <1>1 DEF Prio2Str
    <2> QED
      BY <2>1 DEF EvaluatePriority
  <1>2. CASE near # {} /\ Compat(tag.val, fam, hook)
    <2>1. Prio2Str(prio, fam, hook) = [name |-> tag.str, off |-> prio - tag.val]
      BY <1>2 DEF Prio2Str
    <2>2. Min(near) \in DOMAIN PriosOf(fam)
      BY <1>2, SixPrios, MinIsMember
    <2>3. StdPrioLookup(tag.str, fam, hook) = {tag.val}
      <3>1. \A q \in Range(PriosOf(fam)) : q.str = tag.str => q = tag
        BY <2>2, SixPrios DEF Range
      <3>2. tag \in Range(PriosOf(fam))
        BY <2>2 DEF Range
      <3> HIDE DEF tag
      <3> QED
        BY <1>2, <3>1, <3>2 DEF StdPrioLookup
    <2>4. tag.val \in Int /\ tag.str # "none"
      BY <2>2, SixPrios
    <2> HIDE DEF tag
    <2>5. EvaluatePriority(Prio2Str(prio, fam, hook), fam, hook) = {val + (prio - tag.val) : val \in {tag.val}}
      BY <2>1, <2>3, <2>4 DEF EvaluatePriority
    <2> QED
      BY <2>4, <2>5
  <1> QED
    BY <1>1, <1>2

(* Division with a remainder, and the remainder of a remainder.             *)
LEMMA Parts ==
  ASSUME NEW n \in Nat, NEW d \in Nat \ {0}
  PROVE  n \div d \in Nat /\ n % d \in 0 .. d - 1 /\ n = (n \div d) * d + (n % d)
  <1>1. n % d \in 0 .. d - 1
    OBVIOUS
  <1>2. n = (n \div d) * d + (n % d)
    OBVIOUS
  <1>3. n \div d \in Nat
    OBVIOUS
  <1> QED
    BY <1>1, <1>2, <1>3

(* Quotient and remainder are the only such parts.                           *)
LEMMA Remainder ==
  ASSUME NEW a \in Nat, NEW d \in Nat \ {0}, NEW b \in 0 .. d - 1
  PROVE  (d * a + b) % d = b
  <1>1. d * a + b \in Nat
    OBVIOUS
  <1> DEFINE n == d * a + b
             q == n \div d
             r == n % d
  <1>2. q \in Nat /\ r \in 0 .. d - 1 /\ n = q * d + r
    BY <1>1, Parts
  <1>3. d * a + b = d * q + r
    BY <1>2
  <1> HIDE DEF n, q, r
  <1>4. d * (a - q) = r - b
    BY <1>2, <1>3
  <1>5. r - b < d /\ b - r < d
    BY <1>2
  <1>6. a = q
    <2>1. CASE a > q
      <3>1. d * (a - q) >= d
        BY <1>2, <2>1
      <3> QED
        BY <3>1, <1>2, <1>4, <1>5
    <2>2. CASE a < q
      <3>1. d * (q - a) >= d
        BY <1>2, <2>2
      <3>2. d * (q - a) = b - r
        BY <1>2, <1>4
      <3> QED
        BY <3>1, <3>2, <1>2, <1>5
    <2> QED
      BY <2>1, <2>2, <1>2
  <1>7. r = b
    BY <1>2, <1>3, <1>6
  <1> QED
    BY <1>7 DEF r, n

(* Dividing twice is dividing by the product.                                *)
LEMMA Nested ==
  ASSUME NEW n \in Nat, NEW d \in Nat \ {0}, NEW e \in Nat \ {0}, \E k \in Nat : e = d * k
  PROVE  (n % e) % d = n % d
  <1> DEFINE q == n \div e
             r == n % e
             s == r \div d
             t == r % d
  <1>1. q \in Nat /\ r \in Nat /\ n = q * e + r
    BY ONLY n \in Nat, e \in Nat \ {0}, Parts
  <1>2. PICK k \in Nat : e = d * k
    OBVIOUS
  <1>3. s \in Nat /\ t \in 0 .. d - 1 /\ r = s * d + t
    BY <1>1, Parts
  <1> HIDE DEF q, r, s, t
  <1>4. n = d * (k * q + s) + t
    BY <1>1, <1>2, <1>3
  <1>5. k * q + s \in Nat
    BY <1>1, <1>2, <1>3
  <1>6. n % d = t
    BY <1>3, <1>4, <1>5, Remainder
  <1> QED
    BY <1>6 DEF t, r

(* time_print() and time_parse(), datatype.c:892-1019: a time printed in     *)
(* days, hours, minutes, seconds and milliseconds is read as the same time.  *)
THEOREM TimeReadBack == \A ms \in Nat : TimeParse(TimePrint(ms)) = ms
  <1> SUFFICES ASSUME NEW ms \in Nat PROVE TimeParse(TimePrint(ms)) = ms
    OBVIOUS
  <1> DEFINE S == Second
             M == 60 * Second
             H == 3600 * Second
             D == 86400 * Second
  <1>1. S \in Nat \ {0} /\ M \in Nat \ {0} /\ H \in Nat \ {0} /\ D \in Nat \ {0}
    BY DEF Second
  <1>2. M = S * 60 /\ H = M * 60 /\ D = H * 24
    BY DEF Second
  <1> HIDE DEF S, M, H, D
  <1>3. \A n \in Nat : \A e, u \in Nat \ {0} : (\E k \in Nat : e = u * k) => (n % e) % u = n % u
    BY Nested
  <1>4. (\E k \in Nat : D = H * k) /\ (\E k \in Nat : H = M * k) /\ (\E k \in Nat : M = S * k)
    BY <1>2
  <1>5. (ms % D) % H = ms % H /\ (ms % H) % M = ms % M /\ (ms % M) % S = ms % S
    <2>1. (ms % D) % H = ms % H
      BY ONLY ms \in Nat, <1>1, <1>4, Nested
    <2>2. (ms % H) % M = ms % M
      BY ONLY ms \in Nat, <1>1, <1>4, Nested
    <2>3. (ms % M) % S = ms % S
      BY ONLY ms \in Nat, <1>1, <1>4, Nested
    <2> QED
      BY <2>1, <2>2, <2>3
  <1> DEFINE d == ms \div D
             h == (ms % D) \div H
             m == (ms % H) \div M
             s == (ms % M) \div S
             inDay == ms % D
             inHour == ms % H
             inMinute == ms % M
             r == ms % S
  <1>7. TimeParse(TimePrint(ms)) = (((24 * d + h) * 60 + m) * 60 + s) * S + r
    BY DEF TimeParse, TimePrint, S, M, H, D
  <1>6. \A n \in Nat : \A u \in Nat \ {0} : n \div u \in Nat /\ n % u \in Nat /\ n = (n \div u) * u + (n % u)
    BY Parts
  <1>8. d \in Nat /\ inDay \in Nat /\ ms = d * D + inDay
    BY <1>1, <1>6
  <1>9. h \in Nat /\ inHour \in Nat /\ inDay = h * H + inHour
    BY <1>1, <1>5, <1>6, <1>8
  <1>10. m \in Nat /\ inMinute \in Nat /\ inHour = m * M + inMinute
    BY <1>1, <1>5, <1>6, <1>9
  <1>11. s \in Nat /\ r \in Nat /\ inMinute = s * S + r
    BY <1>1, <1>5, <1>6, <1>10
  <1> HIDE DEF d, h, m, s, r, inDay, inHour, inMinute
  <1>12. ms = (((24 * d + h) * 60 + m) * 60 + s) * S + r
    BY <1>8, <1>9, <1>10, <1>11, SMT DEF S, M, H, D, Second
  <1> QED
    BY <1>7, <1>12

(* An object with a quota, and one with a policy of timeouts.                *)
QuotaObject(comment, inv, bytes, used) ==
  [t |-> "object", type |-> "quota", comment |-> comment, spec |-> [inv |-> inv, bytes |-> bytes, used |-> used]]
TimeoutObject(comment, l3, l4, policy) ==
  [t |-> "object", type |-> "ct timeout", comment |-> comment, spec |-> [l4 |-> l4, l3 |-> l3, policy |-> policy]]

(* obj_print_data(), rule.c:1852-2029, obj_print_json(), json.c:293-407, and *)
(* what reads them: a quota listed as text or as JSON is loaded with the     *)
(* same number of bytes, allowed and used.                                   *)
THEOREM QuotaReadBack ==
  \A bytes, used \in Nat : \A inv, comment :
    /\ ParseObjText(ObjText(QuotaObject(comment, inv, bytes, used))) = Done(QuotaObject(comment, inv, bytes, used))
    /\ ParseObjJson(ObjJson(QuotaObject(comment, inv, bytes, used))) = Done(QuotaObject("none", inv, bytes, used))
  <1> SUFFICES ASSUME NEW bytes \in Nat, NEW used \in Nat, NEW inv, NEW comment
               PROVE  /\ ParseObjText(ObjText(QuotaObject(comment, inv, bytes, used))) = Done(QuotaObject(comment, inv, bytes, used))
                      /\ ParseObjJson(ObjJson(QuotaObject(comment, inv, bytes, used))) = Done(QuotaObject("none", inv, bytes, used))
    OBVIOUS
  <1> DEFINE o == QuotaObject(comment, inv, bytes, used)
             shown == [inv |-> inv, bytes |-> RateJson(bytes), used |-> RateJson(used)]
  <1>1. ObjText(o) = [t |-> "object", type |-> "quota", comment |-> comment, spec |-> shown]
    BY DEF ObjText, QuotaObject
  <1>2. RateOf(RateJson(bytes)) = bytes /\ RateOf(RateJson(used)) = used
    BY RateReadBack
  <1>3. ParseObjText([t |-> "object", type |-> "quota", comment |-> comment, spec |-> shown]) = Done(o)
    BY <1>2 DEF ParseObjText, QuotaObject, Done
  <1>4. ObjJson(o) = [t |-> "object", type |-> "quota", spec |-> [inv |-> inv, bytes |-> bytes, used |-> used]]
    BY DEF ObjJson, QuotaObject
  <1>5. ParseObjJson([t |-> "object", type |-> "quota", spec |-> [inv |-> inv, bytes |-> bytes, used |-> used]])
          = Done(QuotaObject("none", inv, bytes, used))
    BY DEF ParseObjJson, QuotaObject, Done
  <1> QED
    BY <1>1, <1>3, <1>4, <1>5

(* No protocol has two states of one name.                                   *)
LEMMA StatesDiffer ==
  ASSUME NEW l4 \in {"tcp", "udp"}
  PROVE  \A i, j \in DOMAIN TimeoutProtocol[l4] : TimeoutProtocol[l4][i].name = TimeoutProtocol[l4][j].name => i = j
  <1>1. CASE l4 = "udp"
    BY <1>1 DEF TimeoutProtocol, State
  <1>2. CASE l4 = "tcp"
    BY <1>2 DEF TimeoutProtocol, State
  <1> QED
    BY <1>1, <1>2

(* print_proto_timeout_policy(), rule.c:1805-1824, with ct_timeout_config    *)
(* and ct_timeout_evaluate(), evaluate.c:4178-4199: a policy is listed by    *)
(* the times that are not the defaults, and what is loaded from the listing  *)
(* has the time it had for every state, unless all are defaults.             *)
THEOREM PolicyReadBack ==
  \A l4 \in {"tcp", "udp"} : \A l3, comment : \A policy \in [DOMAIN TimeoutProtocol[l4] -> Nat] :
    LET o == TimeoutObject(comment, l3, l4, policy)
        read == ParseObjText(ObjText(o))
    IN  (\E i \in DOMAIN policy : policy[i] # TimeoutProtocol[l4][i].dflt) =>
          read.err = "none" /\ EvaluateObj(read.stmts) = Done(o)
  <1> SUFFICES ASSUME NEW l4 \in {"tcp", "udp"}, NEW l3, NEW comment,
                      NEW policy \in [DOMAIN TimeoutProtocol[l4] -> Nat],
                      NEW n \in DOMAIN policy, policy[n] # TimeoutProtocol[l4][n].dflt
               PROVE  LET o == TimeoutObject(comment, l3, l4, policy)
                          read == ParseObjText(ObjText(o))
                      IN  read.err = "none" /\ EvaluateObj(read.stmts) = Done(o)
    OBVIOUS
  <1> DEFINE o == TimeoutObject(comment, l3, l4, policy)
             states == TimeoutProtocol[l4]
             spec == [l4 |-> l4, l3 |-> l3, policy |-> policy]
             times == PolicyText(spec)
             listed == TimeoutObject(comment, l3, l4, times)
             changed == {i \in DOMAIN states : policy[i] # states[i].dflt}
  <1>1. /\ DOMAIN times = {states[i].name : i \in changed}
        /\ \A i \in changed : times[states[i].name] = policy[i]
    <2> DEFINE at(name) == CHOOSE i \in changed : states[i].name = name
    <2>1. times = [name \in {states[i].name : i \in changed} |-> policy[at(name)]]
      BY DEF PolicyText
    <2>2. \A i \in changed : at(states[i].name) = i
      BY StatesDiffer
    <2> HIDE DEF states, changed, at, times
    <2> QED
      BY <2>1, <2>2
  <1>2. ObjText(o) = listed
    <2>1. o.type = "ct timeout" /\ o.spec = spec /\ PolicyText(o.spec) = times
      BY DEF TimeoutObject
    <2> HIDE DEF times
    <2>2. ObjText(o) = [o EXCEPT !.spec = [spec EXCEPT !.policy = times]]
      <3> HIDE DEF o, spec
      <3> QED
        BY <2>1 DEF ObjText
    <2>3. [spec EXCEPT !.policy = times] = [l4 |-> l4, l3 |-> l3, policy |-> times]
      OBVIOUS
    <2> QED
      BY <2>2, <2>3 DEF TimeoutObject
  <1>3. DOMAIN times # {}
    BY <1>1
  <1>4. ParseObjText(listed) = Done(listed)
    BY <1>3 DEF ParseObjText, TimeoutObject, Done
  <1>5. DOMAIN times \subseteq StateNames(l4)
    BY <1>1 DEF StateNames, Range
  <1>6. \A i \in DOMAIN states :
          (IF states[i].name \in DOMAIN times THEN times[states[i].name] ELSE states[i].dflt) = policy[i]
    <2> SUFFICES ASSUME NEW i \in DOMAIN states
                 PROVE  (IF states[i].name \in DOMAIN times THEN times[states[i].name] ELSE states[i].dflt) = policy[i]
      OBVIOUS
    <2>1. CASE i \in changed
      BY <1>1, <2>1
    <2>2. CASE i \notin changed
      <3>1. states[i].name \notin DOMAIN times
        BY <1>1, <2>2, StatesDiffer
      <3> QED
        BY <2>2, <3>1
    <2> QED
      BY <2>1, <2>2
  <1>7. EvaluateObj(listed) = Done(o)
    <2>1. TimesOf(l4, times) = policy
      BY <1>6 DEF TimesOf
    <2> HIDE DEF times
    <2>2. listed.type = "ct timeout" /\ listed.spec.l4 = l4 /\ listed.spec.policy = times
      BY DEF TimeoutObject
    <2>3. ~(DOMAIN listed.spec.policy \ StateNames(listed.spec.l4) # {})
      BY <1>5, <2>2
    <2>4. [listed EXCEPT !.spec.policy = policy] = o
      <3> DEFINE type == "ct timeout"
                 with(p) == [t |-> "object", type |-> type, comment |-> comment, spec |-> [l4 |-> l4, l3 |-> l3, policy |-> p]]
      <3>1. listed = with(times) /\ o = with(policy)
        BY DEF TimeoutObject
      <3> HIDE DEF type, listed
      <3>2. [with(times) EXCEPT !.spec.policy = policy] = with(policy)
        OBVIOUS
      <3> HIDE DEF with
      <3> QED
        BY <3>1, <3>2
    <2> HIDE DEF listed
    <2> QED
      BY <2>1, <2>2, <2>3, <2>4 DEF EvaluateObj
  <1> QED
    BY <1>2, <1>4, <1>7 DEF Done

-----------------------------------------------------------------------------
(* How a declaration goes through the program, and tables.                   *)

(* A declaration is loaded as a message, and returns from its listing.       *)
Loads(fam, d, m) ==
  /\ DeclEvaluated(fam, d).err = "none"
  /\ DeclGenerated(DeclEvaluated(fam, d).stmts) = Kept(m)
  /\ DeclDoes(m, fam) = DeclMeans(d, fam)
Comes(fam, d) ==
  /\ DeclEvaluated(fam, d).err # "BUG"
  /\ DeclEvaluated(fam, d).err = "none" => \E m : Loads(fam, d, m)
Returns(fam, how, m) ==
  LET read == DeclRead(how, DeclListed(fam, how, m).stmts)
  IN  /\ read.err = "none"
      /\ \E second : /\ Loads(fam, read.stmts, second)
                     /\ DeclDoes(second, fam) = DeclDoes(m, fam)
                     /\ DeclListed(fam, how, second) = DeclListed(fam, how, m)
GoesThrough(fam, how, d) ==
  /\ Comes(fam, d)
  /\ \A m : Loads(fam, d, m) => Returns(fam, how, m)

(* The fields of the outcomes of evaluation and of the kernel.               *)
LEMMA Fields ==
  ASSUME NEW d, NEW m
  PROVE  Done(d).err = "none" /\ Done(d).stmts = d /\ Kept(m).err = "none" /\ Kept(m).out = m /\ Kept(m).low = 0
         /\ Refused.err # "BUG" /\ Refused.err # "none"
  BY DEF Done, Kept, Refused

(* A declaration is sent as one message only.                                *)
LEMMA OneMessage == ASSUME NEW fam, NEW d, NEW m, NEW n, Loads(fam, d, m), Loads(fam, d, n) PROVE m = n
  <1>1. Kept(m) = Kept(n)
    BY DEF Loads
  <1> QED
    BY <1>1, Fields

(* What returns is what is read, when that loads as the same message.        *)
LEMMA ReturnsAs ==
  ASSUME NEW fam, NEW how, NEW m, NEW x, DeclRead(how, DeclListed(fam, how, m).stmts) = Done(x), Loads(fam, x, m)
  PROVE  Returns(fam, how, m)
  BY Fields DEF Returns

(* A table is loaded as it is given: evaluation adds its family, which the   *)
(* message does not repeat (table_evaluate(), mnl_nft_table_add()).          *)
LEMMA TableLoads ==
  ASSUME NEW fam, NEW flags, NEW comment
  PROVE  Loads(fam, TableForm(flags, comment), TableForm(flags, comment))
  <1> DEFINE d == TableForm(flags, comment)
             known == d ++ [family |-> fam]
  <1>1. d.t = "table" /\ d.flags = flags /\ d.comment = comment
    BY DEF TableForm
  <1>2. DeclEvaluated(fam, d) = Done(known)
    BY <1>1 DEF DeclEvaluated, Done
  <1>3. known.t = "table" /\ known.flags = flags /\ known.comment = comment
    BY DEF ++, TableForm
  <1>4. DeclGenerated(known) = Kept(d)
    <2> HIDE DEF known
    <2> QED
      BY <1>3 DEF DeclGenerated, TableMessage, TableForm
  <1>5. DeclDoes(d, fam) = d /\ DeclMeans(d, fam) = d
    BY <1>1 DEF DeclDoes, DeclMeans
  <1> QED
    BY <1>2, <1>4, <1>5, Fields DEF Loads

(* A table with one flag or none is listed as text and read back; JSON is    *)
(* read back of one without flag and comment (table_print(),                 *)
(* table_print_json()).                                                      *)
LEMMA TableReturns ==
  ASSUME NEW fam, NEW flags, NEW comment, flags = {} \/ \E f \in flags : flags = {f}
  PROVE  /\ Returns(fam, "text", TableForm(flags, comment))
         /\ Returns(fam, "json", TableForm({}, "none"))
  <1>1. Returns(fam, "text", TableForm(flags, comment))
    <2> DEFINE d == TableForm(flags, comment)
    <2>1. d.t = "table" /\ d.flags = flags /\ d.comment = comment
      BY DEF TableForm
    <2>2. DeclListed(fam, "text", d) = Done(d)
      BY <2>1 DEF DeclListed, ListedText, TableText, TableForm
    <2>3. ~(Cardinality(flags) > 1)
      <3>1. CASE flags = {}
        BY <3>1, FS_EmptySet
      <3>2. CASE \E f \in flags : flags = {f}
        BY <3>2, FS_Singleton
      <3> QED
        BY <3>1, <3>2
    <2>4. DeclRead("text", d) = Done(d)
      BY <2>1, <2>3 DEF DeclRead, ReadText, ParseTableText
    <2> QED
      BY <2>2, <2>4, Fields, TableLoads, ReturnsAs
  <1>2. Returns(fam, "json", TableForm({}, "none"))
    <2> DEFINE d == TableForm({}, "none")
               o == [t |-> "table"] ++ <<>>
    <2>1. d.t = "table" /\ d.flags = {}
      BY DEF TableForm
    <2>2. DeclListed(fam, "json", d) = Done(o)
      BY <2>1 DEF DeclListed, ListedJson, TableJson
    <2>3. o.t = "table"
      BY DEF ++
    <2>4. DeclRead("json", o) = Done(d)
      <3> HIDE DEF o
      <3> QED
        BY <2>3 DEF DeclRead, ReadJson, ParseTableJson, TableForm
    <2> QED
      BY <2>2, <2>4, Fields, TableLoads, ReturnsAs
  <1> QED
    BY <1>1, <1>2

-----------------------------------------------------------------------------
(* Chains with a hook.                                                       *)

(* A hook has one number, for the program and for the kernel.                *)
LEMMA HookNumbers ==
  ASSUME NEW fam \in AllFamilies, NEW hook, HookNum(fam, hook) # NoHook
  PROVE  /\ HookNum(fam, hook) \in 0 .. 5
         /\ HookName(fam, HookNum(fam, hook)) = hook
         /\ KernelHooks(fam)[HookNum(fam, hook) + 1] = hook
  <1> DEFINE at == {n \in DOMAIN HooksOf(fam) : HooksOf(fam)[n] = hook}
             num == HookNum(fam, hook)
  <1>1. DOMAIN HooksOf(fam) \subseteq 1 .. 6
    <2>1. CASE fam = "netdev"
      BY <2>1 DEF HooksOf
    <2>2. CASE fam = "arp"
      BY <2>2 DEF HooksOf, ArpHooks
    <2>3. CASE fam \notin {"netdev", "arp"}
      BY <2>3 DEF HooksOf, InetHooks
    <2> QED
      BY <2>1, <2>2, <2>3
  <1>2. at # {} /\ ~(hook = "ingress" /\ fam \notin {"inet", "netdev"}) /\ num = Min(at) - 1
    BY DEF HookNum
  <1>3. Min(at) \in at
    BY <1>1, <1>2, MinIsMember
  <1> HIDE DEF num
  <1>4. num \in 0 .. 5 /\ num + 1 \in DOMAIN HooksOf(fam) /\ HooksOf(fam)[num + 1] = hook
    BY <1>1, <1>2, <1>3
  <1>5. HookName(fam, num) = hook
    BY <1>4 DEF HookName
  <1>6. KernelHooks(fam)[num + 1] = hook
    <2>1. CASE fam = "netdev"
      BY <1>4, <2>1 DEF HooksOf, KernelHooks
    <2>2. CASE fam = "arp"
      BY <1>4, <2>2 DEF HooksOf, ArpHooks, KernelHooks
    <2>3. CASE fam = "bridge"
      <3>1. num + 1 # 6
        BY <1>2, <1>4, <2>3 DEF HooksOf, InetHooks
      <3> QED
        BY <1>4, <2>3, <3>1 DEF HooksOf, InetHooks, KernelHooks
    <2>4. CASE fam \notin {"netdev", "arp", "bridge"}
      BY <1>4, <2>4 DEF HooksOf, InetHooks, KernelHooks
    <2> QED
      BY <2>1, <2>2, <2>3, <2>4
  <1> QED
    BY <1>4, <1>5, <1>6 DEF num

(* The standard priorities are those of the manual.                          *)
LEMMA PriorityIsMeant ==
  ASSUME NEW prio, prio.off \in Int, NEW fam, NEW hook, NEW p \in EvaluatePriority(prio, fam, hook)
  PROVE  p = PriorityMeant(prio, fam) /\ p \in Int
  <1>1. CASE prio.name = "none"
    BY <1>1 DEF EvaluatePriority, PriorityMeant
  <1>2. CASE prio.name # "none"
    <2>1. \A q \in Range(PriosOf(fam)) : NamedPriorities(fam)[q.str] = q.val /\ q.val \in Int
      <3>1. CASE fam = "bridge"
        BY <3>1 DEF PriosOf, BridgeStdPrios, Tag, NamedPriorities, Range
      <3>2. CASE fam # "bridge"
        BY <3>2 DEF PriosOf, StdPrios, Tag, NamedPriorities, Range
      <3> QED
        BY <3>1, <3>2
    <2>2. PICK q \in Range(PriosOf(fam)) : q.str = prio.name /\ p = q.val + prio.off
      BY <1>2 DEF EvaluatePriority, StdPrioLookup
    <2>3. p = prio.off + q.val /\ p \in Int
      BY <2>1, <2>2
    <2> QED
      BY <1>2, <2>1, <2>2, <2>3 DEF PriorityMeant
  <1> QED
    BY <1>1, <1>2

(* One device or none is the same list from both ends.                       *)
LEMMA DevicesReturn ==
  ASSUME NEW names, DeviceList(names)
  PROVE  /\ EvaluateDevices(Devices(names)) = Done(Devices(names))
         /\ DevNames(Devices(names)) = names
         /\ (Devices(names) = <<>> <=> names = <<>>)
  <1>1. CASE names = <<>>
    <2>1. Devices(names) = <<>> /\ DevNames(<<>>) = <<>> /\ Reverse(<<>>) = <<>>
      BY <1>1 DEF Devices, DevNames, Reverse
    <2> QED
      BY <1>1, <2>1 DEF EvaluateDevices
  <1>2. ASSUME NEW n, names = <<n>> PROVE  /\ EvaluateDevices(Devices(names)) = Done(Devices(names))
                                          /\ DevNames(Devices(names)) = names
                                          /\ (Devices(names) = <<>> <=> names = <<>>)
    <2> DEFINE dev == [t |-> "string", name |-> n]
    <2>1. Devices(names) = <<dev>> /\ DevNames(<<dev>>) = <<n>>
      BY <1>2 DEF Devices, DevNames
    <2>2. Reverse(<<dev>>) = <<dev>>
      BY DEF Reverse
    <2>3. dev.t = "string"
      OBVIOUS
    <2> HIDE DEF dev
    <2>4. EvaluateDevices(<<dev>>) = Done(<<dev>>)
      BY <2>2, <2>3 DEF EvaluateDevices
    <2> QED
      BY <1>2, <2>1, <2>4
  <1> QED
    BY <1>1, <1>2 DEF DeviceList

(* A field that gets the value it has changes nothing.                       *)
LEMMA SameExcept ==
  ASSUME NEW f, NEW a \in DOMAIN f, f = [x \in DOMAIN f |-> f[x]]
  PROVE  [f EXCEPT ![a] = f[a]] = f
  OBVIOUS

(* A base chain, and what is sent of it.                                     *)
BaseMessage(fam, type, hooknum, prio, policy, flags, comment, names) ==
  [t |-> "chain", family |-> fam, flags |-> flags, comment |-> comment, devs |-> names,
   hooknum |-> hooknum, prio |-> prio, type |-> type, policy |-> policy]
FitsHook(fam, hook, prio, names) ==
  /\ HookNum(fam, hook) # NoHook
  /\ EvaluatePriority(prio, fam, HookNum(fam, hook)) # {}
  /\ names # <<>> <=> NeedsDevice(fam, HookNum(fam, hook))
Priority(fam, hook, prio) == CHOOSE p \in EvaluatePriority(prio, fam, HookNum(fam, hook)) : TRUE

(* A base chain is refused unless its hook, its priority and its devices fit *)
(* its family; otherwise its hook and priority are numbers afterwards        *)
(* (chain_evaluate()).                                                       *)
LEMMA BaseEvaluated ==
  ASSUME NEW fam, NEW type, NEW hook, NEW prio, NEW policy, NEW flags, NEW comment, NEW names, DeviceList(names)
  PROVE  LET c == BaseForm(type, hook, prio, policy, flags, comment, names)
             num == HookNum(fam, hook)
         IN  IF FitsHook(fam, hook, prio, names)
             THEN EvaluateChain(fam, c) = Done(c ++ [num |-> num, priority |-> Priority(fam, hook, prio)])
             ELSE EvaluateChain(fam, c) = Refused
  <1> DEFINE c == BaseForm(type, hook, prio, policy, flags, comment, names)
             num == HookNum(fam, hook)
             known == c ++ [num |-> num, priority |-> Priority(fam, hook, prio)]
  <1>1. c.base = TRUE /\ c.hook = hook /\ c.prio = prio /\ c.devs = Devices(names)
    BY DEF BaseForm
  <1>2. EvaluateDevices(Devices(names)) = Done(Devices(names)) /\ (Devices(names) = <<>> <=> names = <<>>)
    BY DevicesReturn
  <1>3. [known EXCEPT !.devs = Devices(names)] = known
    <2> HIDE DEF num
    <2>1. "devs" \in DOMAIN known /\ known["devs"] = Devices(names) /\ known = [x \in DOMAIN known |-> known[x]]
      BY DEF ++, BaseForm
    <2> HIDE DEF known
    <2> QED
      BY <2>1, SameExcept
  <1>4. CASE ~FitsHook(fam, hook, prio, names)
    <2> HIDE DEF c, known
    <2>1. num = NoHook \/ EvaluatePriority(prio, fam, num) = {} \/ ~(c.devs # <<>> <=> NeedsDevice(fam, num))
      BY <1>1, <1>2, <1>4, Zenon DEF FitsHook
    <2> HIDE DEF num
    <2>2. EvaluateChain(fam, c) = Refused
      BY <1>1, <2>1 DEF EvaluateChain, num
    <2> QED
      BY <1>4, <2>2 DEF c
  <1>5. CASE FitsHook(fam, hook, prio, names)
    <2>1. num # NoHook /\ EvaluatePriority(prio, fam, num) # {} /\ (names # <<>> <=> NeedsDevice(fam, num))
      BY <1>5 DEF FitsHook
    <2>3. c.devs # <<>> <=> NeedsDevice(fam, num)
      <3> HIDE DEF c, num
      <3> QED
        BY <1>1, <1>2, <2>1
    <2> DEFINE raw == c ++ [num |-> IF c.base THEN num ELSE 0,
                           priority |-> IF c.base THEN CHOOSE p \in EvaluatePriority(c.prio, fam, num) : TRUE ELSE 0]
    <2> HIDE DEF c
    <2>4. raw = known
      BY <1>1 DEF Priority
    <2>5. EvaluateDevices(c.devs).err = "none" /\ EvaluateDevices(c.devs).stmts = Devices(names)
      BY <1>1, <1>2, Fields
    <2> HIDE DEF known
    <2>6. EvaluateChain(fam, c) = Done([raw EXCEPT !.devs = EvaluateDevices(c.devs).stmts])
      <3> HIDE DEF num
      <3>1. num = HookNum(fam, c.hook)
        BY <1>1 DEF num
      <3>2. num # NoHook /\ EvaluatePriority(c.prio, fam, num) # {}
        BY <1>1, <2>1
      <3> QED
        BY <1>1, <2>3, <2>5, <3>1, <3>2 DEF EvaluateChain
    <2> HIDE DEF raw
    <2> QED
      BY <1>3, <1>5, <2>4, <2>5, <2>6 DEF c, known
  <1> QED
    BY <1>4, <1>5

(* A base chain that fits is loaded with the policy accept if none is given, *)
(* and does what it says (mnl_nft_chain_add()).                              *)
LEMMA BaseLoads ==
  ASSUME NEW fam \in AllFamilies, NEW type, NEW hook, NEW prio, prio.off \in Int, NEW policy, NEW flags, NEW comment,
         NEW names, DeviceList(names), FitsHook(fam, hook, prio, names)
  PROVE  Loads(fam, BaseForm(type, hook, prio, policy, flags, comment, names),
               BaseMessage(fam, type, HookNum(fam, hook), Priority(fam, hook, prio), OrElse(policy, "accept"), flags, comment, names))
  <1> DEFINE c == BaseForm(type, hook, prio, policy, flags, comment, names)
             num == HookNum(fam, hook)
             pri == Priority(fam, hook, prio)
             m == BaseMessage(fam, type, num, pri, OrElse(policy, "accept"), flags, comment, names)
             known == c ++ [num |-> num, priority |-> pri]
             full == known ++ [family |-> fam]
  <1>1. c.t = "chain"
    BY DEF BaseForm
  <1>2. DeclEvaluated(fam, c) = Done(full)
    <2>1. EvaluateChain(fam, c) = Done(known)
      BY BaseEvaluated
    <2> HIDE DEF c, known
    <2> QED
      BY <1>1, <2>1, Fields DEF DeclEvaluated
  <1>3. /\ full.t = "chain" /\ full.family = fam /\ full.flags = flags /\ full.comment = comment /\ full.devs = Devices(names)
        /\ full.base = TRUE /\ full.num = num /\ full.priority = pri /\ full.type = type /\ full.policy = policy
    <2> HIDE DEF num, pri
    <2> QED
      BY DEF ++, BaseForm
  <1>4. DeclGenerated(full) = Kept(m)
    <2> HIDE DEF full, num, pri
    <2>1. DevNames(full.devs) = names
      BY <1>3, DevicesReturn
    <2> DEFINE first == [t |-> "chain", family |-> fam, flags |-> flags, comment |-> comment, devs |-> names]
                        ++ [hooknum |-> num, prio |-> pri, type |-> type]
    <2>2. CASE policy = "none"
      <3>1. ChainMessage(full) = first ++ <<>>
        BY <1>3, <2>1, <2>2 DEF ChainMessage
      <3>2. KeptChain(first ++ <<>>) = m
        BY <2>2 DEF KeptChain, ++, BaseMessage, OrElse
      <3> QED
        BY <1>3, <3>1, <3>2 DEF DeclGenerated
    <2>3. CASE policy # "none"
      <3>1. ChainMessage(full) = first ++ [policy |-> policy]
        BY <1>3, <2>1, <2>3 DEF ChainMessage
      <3>2. KeptChain(first ++ [policy |-> policy]) = m
        BY <2>3 DEF KeptChain, ++, BaseMessage, OrElse
      <3> QED
        BY <1>3, <3>1, <3>2 DEF DeclGenerated
    <2> QED
      BY <2>2, <2>3
  <1>5. DeclDoes(m, fam) = DeclMeans(c, fam)
    <2> DEFINE body == [type |-> type, hook |-> hook, prio |-> pri, policy |-> OrElse(policy, "accept"), devs |-> Range(names), flags |-> flags]
               said == [t |-> "chain", comment |-> comment] ++ body
    <2>1. pri = PriorityMeant(prio, fam) /\ KernelHooks(fam)[num + 1] = hook
      BY HookNumbers, PriorityIsMeant DEF FitsHook, Priority
    <2>2. /\ m.t = "chain" /\ m.comment = comment /\ m.type = type /\ m.hooknum = num /\ m.prio = pri /\ m.devs = names
          /\ m.policy = OrElse(policy, "accept") /\ m.flags = flags /\ "hooknum" \in DOMAIN m
      BY DEF BaseMessage
    <2>3. /\ c.t = "chain" /\ c.comment = comment /\ c.base = TRUE /\ c.type = type /\ c.hook = hook /\ c.prio = prio
          /\ c.policy = policy /\ c.flags = flags /\ DevNames(c.devs) = names
      BY DevicesReturn DEF BaseForm
    <2> HIDE DEF m, c, num, pri
    <2>4. DeclDoes(m, fam) = said
      BY <2>1, <2>2 DEF DeclDoes, ChainDoes
    <2>5. DeclMeans(c, fam) = said
      BY <2>1, <2>3 DEF DeclMeans, ChainMeans
    <2> QED
      BY <2>4, <2>5
  <1> QED
    BY <1>2, <1>4, <1>5, Fields DEF Loads

(* What prio2str() makes of a number is a name and an offset.                *)
LEMMA ListedPriority ==
  ASSUME NEW p \in Int, NEW fam, NEW hook
  PROVE  /\ Prio2Str(p, fam, hook).off \in Int
         /\ Prio2Str(p, fam, hook) = [name |-> Prio2Str(p, fam, hook).name, off |-> Prio2Str(p, fam, hook).off]
  <1> DEFINE near == {i \in DOMAIN PriosOf(fam) : Magnitude(p - PriosOf(fam)[i].val) <= Reach}
             tag == PriosOf(fam)[Min(near)]
  <1>1. CASE near = {} \/ ~Compat(tag.val, fam, hook)
    <2>1. Prio2Str(p, fam, hook) = [name |-> "none", off |-> p]
      BY <1>1 DEF Prio2Str
    <2> QED
      BY <2>1
  <1>2. CASE near # {} /\ Compat(tag.val, fam, hook)
    <2>1. Prio2Str(p, fam, hook) = [name |-> tag.str, off |-> p - tag.val]
      BY <1>2 DEF Prio2Str
    <2>2. tag.val \in Int
      BY <1>2, SixPrios, MinIsMember
    <2> QED
      BY <2>1, <2>2
  <1> QED
    BY <1>1, <1>2

(* A function is what its two parts make of it.                              *)
LEMMA Merged ==
  ASSUME NEW f, NEW g, NEW r, r = [i \in DOMAIN r |-> r[i]], DOMAIN r = DOMAIN f \cup DOMAIN g,
         \A i \in DOMAIN f : r[i] = f[i], \A i \in DOMAIN g \ DOMAIN f : r[i] = g[i]
  PROVE  f ++ g = r
  BY DEF ++

(* The fields that the listing of a base chain prints make the form that the *)
(* grammar reads.                                                            *)
LEMMA TextOfBase ==
  ASSUME NEW type, NEW hook, NEW prio, NEW policy, NEW flags, NEW comment, NEW names
  PROVE  [t |-> "chain", base |-> TRUE, type |-> type, policy |-> policy, comment |-> comment, devs |-> Devices(names)]
           ++ [hook |-> hook, prio |-> prio, flags |-> flags]
         = BaseForm(type, hook, prio, policy, flags, comment, names)
  <1> DEFINE f == [t |-> "chain", base |-> TRUE, type |-> type, policy |-> policy, comment |-> comment, devs |-> Devices(names)]
             g == [hook |-> hook, prio |-> prio, flags |-> flags]
             r == BaseForm(type, hook, prio, policy, flags, comment, names)
  <1>1. /\ DOMAIN f = {"t", "base", "type", "policy", "comment", "devs"} /\ DOMAIN g = {"hook", "prio", "flags"}
        /\ DOMAIN r = {"t", "base", "type", "policy", "comment", "devs", "hook", "prio", "flags"}
        /\ r = [i \in DOMAIN r |-> r[i]]
    BY DEF BaseForm
  <1>2. \A i \in DOMAIN f : r[i] = f[i]
    <2>1. /\ r["t"] = f["t"] /\ r["base"] = f["base"] /\ r["type"] = f["type"] /\ r["policy"] = f["policy"]
          /\ r["comment"] = f["comment"] /\ r["devs"] = f["devs"]
      BY DEF BaseForm
    <2> HIDE DEF f, r
    <2> QED
      BY <1>1, <2>1
  <1>3. \A i \in DOMAIN g : r[i] = g[i]
    BY <1>1 DEF BaseForm
  <1> HIDE DEF f, g, r
  <1>4. DOMAIN r = DOMAIN f \cup DOMAIN g
    BY <1>1
  <1>5. f ++ g = r
    BY <1>1, <1>2, <1>3, <1>4, Merged
  <1> QED
    BY <1>5 DEF f, g, r

(* A base chain is listed with the number of its priority under a name and   *)
(* is read back with that number; as JSON, which has neither flags, comment  *)
(* nor several devices, when it has none of them (chain_print_declaration(), *)
(* chain_print_json()).                                                      *)
LEMMA BaseReturns ==
  ASSUME NEW fam \in AllFamilies, NEW type, NEW hook, NEW prio, prio.off \in Int, NEW policy, NEW flags, NEW comment,
         NEW names, DeviceList(names), FitsHook(fam, hook, prio, names)
  PROVE  LET m == BaseMessage(fam, type, HookNum(fam, hook), Priority(fam, hook, prio), OrElse(policy, "accept"),
                              flags, comment, names)
         IN  Returns(fam, "text", m) /\ (flags = {} /\ comment = "none" /\ names = <<>> => Returns(fam, "json", m))
  <1> DEFINE num == HookNum(fam, hook)
             pri == Priority(fam, hook, prio)
             pol == OrElse(policy, "accept")
             m == BaseMessage(fam, type, num, pri, pol, flags, comment, names)
             of == ChainOf(m)
  <1>1. num # NoHook /\ HookName(fam, num) = hook /\ pri \in Int
    BY HookNumbers, PriorityIsMeant DEF FitsHook, Priority
  <1>2. pol # "none" /\ OrElse(pol, "accept") = pol
    BY DEF OrElse
  <1>3. m.t = "chain"
    BY DEF BaseMessage
  <1>4. /\ of.base = TRUE /\ of.type = type /\ of.policy = pol /\ of.comment = comment /\ of.devs = names /\ of.flags = flags
        /\ of.family = fam /\ of.hooknum = num /\ of.prio = pri
    <2> HIDE DEF num, pri, pol
    <2>1. {"hooknum", "prio", "type", "policy"} \subseteq DOMAIN m /\ m.devs = names
      BY DEF BaseMessage
    <2>2. of = [m EXCEPT !.devs = names] ++ [base |-> TRUE, type |-> "none", policy |-> "none"]
      <3> HIDE DEF m
      <3> QED
        BY <2>1 DEF ChainOf
    <2>3. [m EXCEPT !.devs = names] = m
      BY DEF BaseMessage
    <2> HIDE DEF of
    <2> QED
      BY <2>2, <2>3 DEF ++, BaseMessage
  <1>5. Returns(fam, "text", m)
    <2> DEFINE shown == Prio2Str(pri, fam, num)
               x == BaseForm(type, hook, shown, pol, flags, comment, names)
    <2>1. EvaluatePriority(shown, fam, num) = {pri} /\ shown.off \in Int
      BY <1>1, PriorityReadBack, ListedPriority
    <2>2. FitsHook(fam, hook, shown, names) /\ Priority(fam, hook, shown) = pri
      <3> HIDE DEF shown, pri
      <3> QED
        BY <1>1, <2>1 DEF FitsHook, Priority
    <2> HIDE DEF shown
    <2>3. Loads(fam, x, m)
      <3>1. Loads(fam, x, BaseMessage(fam, type, num, Priority(fam, hook, shown), OrElse(pol, "accept"), flags, comment, names))
        <4> HIDE DEF pol
        <4> QED
          BY <2>1, <2>2, BaseLoads
      <3> QED
        BY <1>2, <2>2, <3>1
    <2>4. ChainText(of) = x
      <3> HIDE DEF num, pri, pol, of
      <3>1. ChainText(of) = [t |-> "chain", base |-> TRUE, type |-> type, policy |-> pol, comment |-> comment,
                             devs |-> Devices(names)] ++ [hook |-> hook, prio |-> shown, flags |-> flags]
        BY <1>1, <1>4 DEF ChainText, shown
      <3> QED
        BY <3>1, TextOfBase
    <2>5. x.t = "chain"
      BY DEF BaseForm
    <2> HIDE DEF m, x, of
    <2>6. DeclListed(fam, "text", m) = Done(x)
      BY <1>3, <2>4 DEF DeclListed, ListedText, of
    <2>7. DeclRead("text", x) = Done(x)
      BY <2>5 DEF DeclRead, ReadText
    <2> QED
      BY <2>3, <2>6, <2>7, Fields, ReturnsAs
  <1>6. ASSUME flags = {}, comment = "none", names = <<>> PROVE Returns(fam, "json", m)
    <2> DEFINE shown == [name |-> "none", off |-> pri]
               x == BaseForm(type, hook, shown, pol, flags, comment, names)
               o == [t |-> "chain"] ++ [type |-> type, hook |-> hook, prio |-> pri, policy |-> pol]
    <2>1. EvaluatePriority(shown, fam, num) = {pri} /\ shown.off \in Int
      <3> HIDE DEF pri
      <3> QED
        BY <1>1 DEF EvaluatePriority
    <2>2. FitsHook(fam, hook, shown, names) /\ Priority(fam, hook, shown) = pri
      <3> HIDE DEF shown, pri
      <3> QED
        BY <1>1, <2>1 DEF FitsHook, Priority
    <2>3. Loads(fam, x, m)
      <3> HIDE DEF shown
      <3>1. Loads(fam, x, BaseMessage(fam, type, num, Priority(fam, hook, shown), OrElse(pol, "accept"), flags, comment, names))
        <4> HIDE DEF pol
        <4> QED
          BY <2>1, <2>2, BaseLoads
      <3> QED
        BY <1>2, <2>2, <3>1
    <2>4. ChainJson(of) = o
      <3> HIDE DEF num, pri, pol, of
      <3> QED
        BY <1>1, <1>4 DEF ChainJson
    <2>5. ParseChainJson(o) = x /\ o.t = "chain"
      <3> HIDE DEF num, pri, pol
      <3>1. /\ o.t = "chain" /\ DOMAIN o = {"t", "type", "hook", "prio", "policy"}
            /\ o.type = type /\ o.hook = hook /\ o.prio = pri /\ o.policy = pol
        BY DEF ++
      <3>2. Devices(<<>>) = <<>>
        BY DEF Devices
      <3> HIDE DEF o
      <3> QED
        BY <1>6, <3>1, <3>2 DEF ParseChainJson, BaseForm
    <2> HIDE DEF m, x, o, of
    <2>6. DeclListed(fam, "json", m) = Done(o)
      BY <1>3, <2>4 DEF DeclListed, ListedJson, of
    <2>7. DeclRead("json", o) = Done(x)
      BY <2>5 DEF DeclRead, ReadJson
    <2> QED
      BY <2>3, <2>6, <2>7, Fields, ReturnsAs
  <1> QED
    BY <1>5, <1>6

-----------------------------------------------------------------------------
(* Chains without a hook.                                                    *)

(* A chain without a hook.                                                   *)
PlainMessage(fam, comment) == [t |-> "chain", family |-> fam, flags |-> {}, comment |-> comment, devs |-> <<>>]

(* A chain without a hook is loaded with its comment alone.                  *)
LEMMA PlainLoads ==
  ASSUME NEW fam, NEW comment
  PROVE  Loads(fam, PlainForm(comment), PlainMessage(fam, comment))
  <1> DEFINE c == PlainForm(comment)
             m == PlainMessage(fam, comment)
             known == c ++ [num |-> 0, priority |-> 0]
             full == known ++ [family |-> fam]
  <1>1. c.t = "chain" /\ ~c.base /\ c.comment = comment
    BY DEF PlainForm
  <1>2. DeclEvaluated(fam, c) = Done(full)
    <2>1. EvaluateChain(fam, c) = Done(known)
      <3> HIDE DEF c
      <3> QED
        BY <1>1 DEF EvaluateChain
    <2> HIDE DEF c, known
    <2> QED
      BY <1>1, <2>1, Fields DEF DeclEvaluated
  <1>3. /\ full.t = "chain" /\ full.family = fam /\ full.flags = {} /\ full.comment = comment /\ full.devs = <<>>
        /\ ~full.base /\ full.policy = "none"
    BY DEF ++, PlainForm
  <1>4. DeclGenerated(full) = Kept(m)
    <2> HIDE DEF full
    <2>1. DevNames(full.devs) = <<>>
      BY <1>3 DEF DevNames
    <2>2. ChainMessage(full) = (m ++ <<>>) ++ <<>>
      BY <1>3, <2>1 DEF ChainMessage, PlainMessage
    <2>3. (m ++ <<>>) ++ <<>> = m
      BY DEF ++, PlainMessage
    <2>4. KeptChain(m) = m
      BY DEF KeptChain, PlainMessage
    <2> HIDE DEF m
    <2> QED
      BY <1>3, <2>2, <2>3, <2>4 DEF DeclGenerated
  <1>5. DeclDoes(m, fam) = DeclMeans(c, fam)
    <2>1. m.t = "chain" /\ m.comment = comment /\ "hooknum" \notin DOMAIN m
      BY DEF PlainMessage
    <2> HIDE DEF c, m
    <2> QED
      BY <1>1, <2>1 DEF DeclDoes, ChainDoes, DeclMeans, ChainMeans
  <1> QED
    BY <1>2, <1>4, <1>5, Fields DEF Loads

(* A chain without a hook is read back as it was.                            *)
LEMMA PlainReturns ==
  ASSUME NEW fam, NEW comment
  PROVE  /\ Returns(fam, "text", PlainMessage(fam, comment))
         /\ Returns(fam, "json", PlainMessage(fam, "none"))
  <1>1. ASSUME NEW com
        PROVE  /\ ChainOf(PlainMessage(fam, com)).base = FALSE
               /\ ChainOf(PlainMessage(fam, com)).type = "none" /\ ChainOf(PlainMessage(fam, com)).policy = "none"
               /\ ChainOf(PlainMessage(fam, com)).comment = com /\ ChainOf(PlainMessage(fam, com)).devs = <<>>
               /\ PlainMessage(fam, com).t = "chain"
    <2> DEFINE m == PlainMessage(fam, com)
               base == {"hooknum", "prio", "type", "policy"} \subseteq DOMAIN m
               same == [m EXCEPT !.devs = <<>>]
    <2>1. ~base /\ m.t = "chain"
      BY DEF PlainMessage
    <2>2. same = m
      BY DEF PlainMessage
    <2>3. ChainOf(m) = same ++ [base |-> FALSE, type |-> "none", policy |-> "none"]
      <3>1. [m EXCEPT !.devs = IF base THEN @ ELSE <<>>] = same
        BY <2>1
      <3>2. base = FALSE
        BY <2>1
      <3> HIDE DEF same
      <3>3. ChainOf(m) = same ++ [base |-> base, type |-> "none", policy |-> "none"]
        BY <3>1 DEF ChainOf
      <3> HIDE DEF base
      <3> QED
        BY <3>2, <3>3
    <2> HIDE DEF same
    <2> QED
      BY <2>1, <2>2, <2>3 DEF ++, PlainMessage
  <1>2. Returns(fam, "text", PlainMessage(fam, comment))
    <2> DEFINE m == PlainMessage(fam, comment)
               of == ChainOf(m)
               x == PlainForm(comment)
    <2>1. ChainText(of) = x
      <3> DEFINE f == [t |-> "chain", base |-> of.base, type |-> "none", policy |-> "none", comment |-> comment, devs |-> <<>>]
                 g == [hook |-> "none", prio |-> [name |-> "none", off |-> 0], flags |-> {}]
      <3>1. Devices(<<>>) = <<>>
        BY DEF Devices
      <3>2. ChainText(of) = f ++ g
        <4>1. /\ ~of.base
              /\ of.type = "none" /\ of.policy = "none" /\ of.comment = comment /\ of.devs = <<>>
          BY <1>1
        <4> HIDE DEF of
        <4> QED
          BY <3>1, <4>1 DEF ChainText
      <3>3. /\ DOMAIN f = {"t", "base", "type", "policy", "comment", "devs"} /\ DOMAIN g = {"hook", "prio", "flags"}
            /\ DOMAIN x = {"t", "base", "type", "policy", "comment", "devs", "hook", "prio", "flags"}
            /\ x = [i \in DOMAIN x |-> x[i]]
        BY DEF PlainForm
      <3>4. \A i \in DOMAIN f : x[i] = f[i]
        <4>1. of.base = FALSE
          BY <1>1
        <4>2. /\ x["t"] = f["t"] /\ x["base"] = f["base"] /\ x["type"] = f["type"] /\ x["policy"] = f["policy"]
              /\ x["comment"] = f["comment"] /\ x["devs"] = f["devs"]
          BY <4>1 DEF PlainForm
        <4> HIDE DEF f, x
        <4> QED
          BY <3>3, <4>2
      <3>5. \A i \in DOMAIN g : x[i] = g[i]
        <4>1. x["hook"] = g["hook"] /\ x["prio"] = g["prio"] /\ x["flags"] = g["flags"]
          BY DEF PlainForm
        <4> HIDE DEF g, x
        <4> QED
          BY <3>3, <4>1
      <3> HIDE DEF f, g, x
      <3>6. DOMAIN x = DOMAIN f \cup DOMAIN g
        BY <3>3
      <3> QED
        BY <3>2, <3>3, <3>4, <3>5, <3>6, Merged
    <2>2. x.t = "chain"
      BY DEF PlainForm
    <2>3. m.t = "chain"
      BY <1>1
    <2> HIDE DEF m, x, of
    <2>4. DeclListed(fam, "text", m) = Done(x)
      BY <2>1, <2>3 DEF DeclListed, ListedText, of
    <2>5. DeclRead("text", x) = Done(x)
      BY <2>2 DEF DeclRead, ReadText
    <2> QED
      BY <2>4, <2>5, Fields, PlainLoads, ReturnsAs DEF m, x
  <1>3. Returns(fam, "json", PlainMessage(fam, "none"))
    <2> DEFINE m == PlainMessage(fam, "none")
               of == ChainOf(m)
               x == PlainForm("none")
               o == [t |-> "chain"] ++ <<>>
    <2>1. ChainJson(of) = o
      <3>1. ~of.base
        BY <1>1
      <3> HIDE DEF of
      <3> QED
        BY <3>1 DEF ChainJson
    <2>2. ParseChainJson(o) = x /\ o.t = "chain"
      <3>1. o.t = "chain" /\ DOMAIN o = {"t"}
        BY DEF ++
      <3> DEFINE hooked == "hook" \in DOMAIN o
      <3>2. hooked = FALSE
        BY <3>1
      <3> HIDE DEF o
      <3>3. ParseChainJson(o) =
              [t |-> "chain", base |-> hooked, devs |-> <<>>, flags |-> {}, comment |-> "none", type |-> "none", hook |-> "none",
               prio |-> [name |-> "none", off |-> 0], policy |-> "none"]
        BY <3>1 DEF ParseChainJson
      <3> HIDE DEF hooked
      <3> QED
        BY <3>1, <3>2, <3>3 DEF PlainForm
    <2>3. m.t = "chain"
      BY <1>1
    <2> HIDE DEF m, x, o, of
    <2>4. DeclListed(fam, "json", m) = Done(o)
      BY <2>1, <2>3 DEF DeclListed, ListedJson, of
    <2>5. DeclRead("json", o) = Done(x)
      BY <2>2 DEF DeclRead, ReadJson
    <2> QED
      BY <2>4, <2>5, Fields, PlainLoads, ReturnsAs DEF m, x
  <1> QED
    BY <1>2, <1>3

-----------------------------------------------------------------------------
(* Flowtables.                                                               *)

(* A flowtable with one device.                                              *)
FlowMessage(hooknum, prio, name, flags) ==
  [t |-> "flowtable", hooknum |-> hooknum, prio |-> prio, devs |-> <<name>>, flags |-> flags]
FlowFits(hook, prio) ==
  hook = "none" \/ (HookNum("netdev", hook) # NoHook /\ EvaluatePriority(prio, "netdev", HookNum("netdev", hook)) # {})
FlowHook(hook) == IF hook = "none" THEN 0 ELSE HookNum("netdev", hook)
FlowPriority(hook, prio) == IF hook = "none" THEN 0 ELSE Priority("netdev", hook, prio)

(* A flowtable is refused unless its hook and priority fit the family        *)
(* netdev, where flowtable_evaluate() looks them up whatever the family of   *)
(* its table is.                                                             *)
LEMMA FlowEvaluated ==
  ASSUME NEW hook, NEW prio, NEW name, NEW flags
  PROVE  LET f == FlowForm(hook, prio, name, flags)
         IN  IF FlowFits(hook, prio)
             THEN EvaluateFlowtable(f) = Done(f ++ [num |-> HookNum("netdev", hook), priority |-> FlowPriority(hook, prio)])
             ELSE EvaluateFlowtable(f) = Refused
  <1> DEFINE f == FlowForm(hook, prio, name, flags)
             num == HookNum("netdev", hook)
             found == EvaluatePriority(prio, "netdev", num)
             devs == Devices(<<name>>)
  <1>1. f.hook = hook /\ f.prio = prio /\ f.devs = devs
    BY DEF FlowForm
  <1>2. EvaluateDevices(devs).err = "none" /\ EvaluateDevices(devs).stmts = devs
    BY DevicesReturn, Fields DEF DeviceList
  <1>3. [f EXCEPT !.devs = devs] = f
    BY DEF FlowForm
  <1>4. CASE ~FlowFits(hook, prio)
    <2>1. f.hook # "none" /\ (num = NoHook \/ found = {})
      BY <1>1, <1>4 DEF FlowFits
    <2> HIDE DEF f, num
    <2>2. num = HookNum("netdev", f.hook) /\ found = EvaluatePriority(f.prio, "netdev", num)
      BY <1>1 DEF num
    <2> HIDE DEF found
    <2>3. EvaluateFlowtable(f) = Refused
      BY <1>1, <1>2, <2>1, <2>2 DEF EvaluateFlowtable
    <2> QED
      BY <1>4, <2>3 DEF f
  <1>5. CASE FlowFits(hook, prio)
    <2>1. ~(f.hook # "none" /\ (num = NoHook \/ found = {}))
      BY <1>1, <1>5 DEF FlowFits
    <2> DEFINE pri == FlowPriority(hook, prio)
               same == [f EXCEPT !.devs = EvaluateDevices(f.devs).stmts]
    <2>2. pri = IF f.hook = "none" THEN 0 ELSE CHOOSE p \in found : TRUE
      BY <1>1 DEF FlowPriority, Priority
    <2> HIDE DEF f, num
    <2>3. num = HookNum("netdev", f.hook) /\ found = EvaluatePriority(f.prio, "netdev", num)
      BY <1>1 DEF num
    <2> HIDE DEF found, pri, devs
    <2>4. EvaluateFlowtable(f) = Done(same ++ [num |-> num, priority |-> pri])
      BY <1>1, <1>2, <2>1, <2>2, <2>3 DEF EvaluateFlowtable
    <2>5. same = f
      BY <1>1, <1>2, <1>3
    <2> HIDE DEF same
    <2> QED
      BY <1>5, <2>4, <2>5 DEF f, num, pri
  <1> QED
    BY <1>4, <1>5

(* A flowtable without a hook is loaded at ingress with the priority zero.   *)
LEMMA FlowLoads ==
  ASSUME NEW fam, NEW hook, NEW prio, prio.off \in Int, NEW name, NEW flags, FlowFits(hook, prio)
  PROVE  /\ Loads(fam, FlowForm(hook, prio, name, flags), FlowMessage(FlowHook(hook), FlowPriority(hook, prio), name, flags))
         /\ FlowPriority(hook, prio) \in Int
         /\ HookName("netdev", FlowHook(hook)) = OrElse(hook, "ingress")
  <1> DEFINE f == FlowForm(hook, prio, name, flags)
             num == HookNum("netdev", hook)
             pri == FlowPriority(hook, prio)
             m == FlowMessage(FlowHook(hook), pri, name, flags)
             known == f ++ [num |-> num, priority |-> pri]
             full == known ++ [family |-> fam]
  <1>1. f.t = "flowtable" /\ f.hook = hook /\ f.prio = prio /\ f.flags = flags /\ DevNames(f.devs) = <<name>>
    BY DevicesReturn DEF FlowForm, DeviceList
  <1>2. DeclEvaluated(fam, f) = Done(full)
    <2>1. EvaluateFlowtable(f) = Done(known)
      BY FlowEvaluated
    <2> HIDE DEF f, known
    <2> QED
      BY <1>1, <2>1, Fields DEF DeclEvaluated
  <1>3. /\ full.t = "flowtable" /\ full.hook = hook /\ DevNames(full.devs) = <<name>> /\ full.flags = flags
        /\ full.num = num /\ full.priority = pri
    <2>1. full.devs = f.devs
      BY DEF ++, FlowForm
    <2> HIDE DEF num, pri
    <2>2. full.t = "flowtable" /\ full.hook = hook /\ full.flags = flags /\ full.num = num /\ full.priority = pri
      BY DEF ++, FlowForm
    <2> QED
      BY <1>1, <2>1, <2>2
  <1>4. DeclGenerated(full) = Kept(m)
    <2> HIDE DEF full, pri
    <2>1. FlowtableMessage(full) = m
      BY <1>3 DEF FlowtableMessage, FlowMessage, FlowHook
    <2> QED
      BY <1>3, <2>1 DEF DeclGenerated
  <1>5. /\ pri \in Int /\ pri = (IF hook = "none" THEN 0 ELSE PriorityMeant(prio, "netdev"))
        /\ HookName("netdev", FlowHook(hook)) = OrElse(hook, "ingress")
        /\ KernelHooks("netdev")[FlowHook(hook) + 1] = OrElse(hook, "ingress")
    <2>1. CASE hook = "none"
      BY <2>1 DEF FlowPriority, FlowHook, OrElse, KernelHooks, HookName, HooksOf
    <2>2. CASE hook # "none"
      <3>1. num # NoHook /\ EvaluatePriority(prio, "netdev", num) # {}
        BY <2>2 DEF FlowFits
      <3>2. HookName("netdev", num) = hook /\ KernelHooks("netdev")[num + 1] = hook
        BY <3>1, HookNumbers DEF AllFamilies
      <3>3. pri \in EvaluatePriority(prio, "netdev", num)
        BY <2>2, <3>1 DEF FlowPriority, Priority
      <3>4. pri = PriorityMeant(prio, "netdev") /\ pri \in Int
        BY <3>3, PriorityIsMeant
      <3> HIDE DEF pri
      <3> QED
        BY <2>2, <3>2, <3>4 DEF FlowHook, OrElse
    <2> QED
      BY <2>1, <2>2
  <1>6. DeclDoes(m, fam) = DeclMeans(f, fam)
    <2>1. m.t = "flowtable" /\ m.hooknum = FlowHook(hook) /\ m.prio = pri /\ m.devs = <<name>> /\ m.flags = flags
      BY DEF FlowMessage
    <2> HIDE DEF f, m, pri
    <2> QED
      BY <1>1, <1>5, <2>1 DEF DeclDoes, FlowtableDoes, DeclMeans, FlowtableMeans
  <1> QED
    BY <1>2, <1>4, <1>5, <1>6, Fields DEF Loads

(* A flowtable is listed with its hook and the name of its priority, and     *)
(* read back with both (flowtable_print()).                                  *)
LEMMA FlowReturns ==
  ASSUME NEW fam, NEW hook, NEW prio, prio.off \in Int, NEW name, NEW flags, FlowFits(hook, prio)
  PROVE  Returns(fam, "text", FlowMessage(FlowHook(hook), FlowPriority(hook, prio), name, flags))
  <1> DEFINE num == FlowHook(hook)
             pri == FlowPriority(hook, prio)
             m == FlowMessage(num, pri, name, flags)
             named == OrElse(hook, "ingress")
             shown == Prio2Str(pri, "netdev", num)
             x == FlowForm(named, shown, name, flags)
  <1>1. pri \in Int /\ HookName("netdev", num) = named
    BY FlowLoads
  <1>2. EvaluatePriority(shown, "netdev", num) = {pri} /\ shown.off \in Int
    BY <1>1, PriorityReadBack, ListedPriority
  <1>3. named # "none" /\ HookNum("netdev", named) = num /\ num # NoHook
    <2>1. CASE hook = "none"
      <3>1. named = "ingress" /\ num = 0
        BY <2>1 DEF OrElse, FlowHook
      <3>2. HookNum("netdev", "ingress") = 0
        <4>1. HooksOf("netdev") = <<"ingress">>
          BY DEF HooksOf
        <4>2. {n \in DOMAIN HooksOf("netdev") : HooksOf("netdev")[n] = "ingress"} = {1}
          BY <4>1
        <4>3. Min({1}) = 1
          BY MinIsMember
        <4> QED
          BY <4>2, <4>3 DEF HookNum
      <3> QED
        BY <3>1, <3>2 DEF NoHook
    <2>2. CASE hook # "none"
      BY <2>2 DEF OrElse, FlowHook, FlowFits
    <2> QED
      BY <2>1, <2>2
  <1>4. FlowFits(named, shown) /\ FlowHook(named) = num /\ FlowPriority(named, shown) = pri
    <2> HIDE DEF named, shown, pri, num
    <2> QED
      BY <1>2, <1>3 DEF FlowFits, FlowHook, FlowPriority, Priority
  <1>5. Loads(fam, x, m)
    <2> HIDE DEF named, shown, pri, num
    <2> QED
      BY <1>2, <1>4, FlowLoads
  <1>6. FlowtableText(m) = x /\ m.t = "flowtable" /\ x.t = "flowtable"
    <2>1. m.t = "flowtable" /\ m.hooknum = num /\ m.prio = pri /\ m.devs = <<name>> /\ m.flags = flags
      BY DEF FlowMessage
    <2> HIDE DEF m, num, pri, named
    <2> QED
      BY <1>1, <2>1 DEF FlowtableText, FlowForm
  <1> HIDE DEF m, x
  <1>7. DeclListed(fam, "text", m) = Done(x)
    BY <1>6 DEF DeclListed, ListedText
  <1>8. DeclRead("text", x) = Done(x)
    BY <1>6 DEF DeclRead, ReadText
  <1> QED
    BY <1>5, <1>7, <1>8, Fields, ReturnsAs DEF m

-----------------------------------------------------------------------------
(* Objects.                                                                  *)

(* The fields of the form of an object.                                      *)
LEMMA ObjFields ==
  \A type, comment, spec :
    /\ ObjForm(type, comment, spec).t = "object" /\ ObjForm(type, comment, spec).type = type
    /\ ObjForm(type, comment, spec).comment = comment /\ ObjForm(type, comment, spec).spec = spec
  BY DEF ObjForm

(* The form of an object with other fields.                                  *)
LEMMA ObjExcept ==
  \A type, comment, spec, other : [ObjForm(type, comment, spec) EXCEPT !.spec = other] = ObjForm(type, comment, other)
  BY DEF ObjForm

(* An object is loaded as what evaluation and the kernel make of its fields. *)
LEMMA ObjLoads ==
  ASSUME NEW fam, NEW type \in ObjKinds, NEW comment, NEW spec, NEW sent, NEW kept,
         EvaluateObj(ObjForm(type, comment, spec)) = Done(ObjForm(type, comment, sent)),
         KeptObj(fam, ObjForm(type, comment, sent)) = ObjForm(type, comment, kept),
         ObjDoes(ObjForm(type, comment, kept)) = ObjMeans(ObjForm(type, comment, spec), fam)
  PROVE  Loads(fam, ObjForm(type, comment, spec), ObjForm(type, comment, kept))
  <1> DEFINE o == ObjForm(type, comment, spec)
             known == ObjForm(type, comment, sent)
             m == ObjForm(type, comment, kept)
             full == known ++ [family |-> fam]
  <1>1. o.t = "object" /\ m.t = "object"
    BY ObjFields
  <1>2. DeclEvaluated(fam, o) = Done(full)
    <2> HIDE DEF o, known
    <2> QED
      BY <1>1, Fields DEF DeclEvaluated, o, known
  <1>3. full.t = "object" /\ full.type = type /\ full.comment = comment /\ full.spec = sent /\ full.family = fam
    BY DEF ++, ObjForm
  <1>4. DeclGenerated(full) = Kept(m)
    <2> HIDE DEF full
    <2>1. ObjMessage(full).err = "none" /\ ObjMessage(full).out = known
      BY <1>3 DEF ObjMessage, SentKinds, ObjForm
    <2> HIDE DEF known, m
    <2>2. KeptObj(full.family, ObjMessage(full).out) = m
      BY <1>3, <2>1 DEF known, m
    <2> QED
      BY <1>3, <2>1, <2>2 DEF DeclGenerated
  <1>5. DeclDoes(m, fam) = DeclMeans(o, fam)
    <2> HIDE DEF m, o
    <2> QED
      BY <1>1 DEF DeclDoes, DeclMeans, m, o
  <1> HIDE DEF full
  <1> QED
    BY <1>2, <1>4, <1>5, Fields DEF Loads

(* An object whose fields are nothing else to the kernel.                    *)
LEMMA SimpleMeans ==
  ASSUME NEW fam, NEW type, NEW comment, NEW spec, type # "ct timeout", Simple(spec)
  PROVE  ObjDoes(ObjForm(type, comment, spec)) = ObjMeans(ObjForm(type, comment, spec), fam)
  <1> DEFINE o == ObjForm(type, comment, spec)
             said == [f \in DOMAIN o.spec |->
                        CASE f = "l3" -> OrElse(o.spec.l3, fam)
                          [] f = "policy" -> [s \in StateNames(o.spec.l4) |->
                                                IF s \in DOMAIN o.spec.policy THEN o.spec.policy[s] ELSE DefaultTime(o.spec.l4, s)]
                          [] OTHER -> o.spec[f]]
  <1>1. o.spec = spec /\ o.type = type
    BY DEF ObjForm
  <1>2. said = spec
    <2> HIDE DEF o
    <2>1. \A f \in DOMAIN spec : f # "l3" /\ f # "policy"
      BY DEF Simple
    <2>2. said = [f \in DOMAIN spec |-> spec[f]]
      BY <1>1, <2>1
    <2> QED
      BY <2>2 DEF Simple
  <1>3. ObjMeans(o, fam) = [o EXCEPT !.spec = said]
    <2> HIDE DEF o
    <2> QED
      BY DEF ObjMeans
  <1>4. [o EXCEPT !.spec = spec] = o
    BY ObjExcept
  <1>5. ObjDoes(o) = o
    <2> HIDE DEF o
    <2> QED
      BY <1>1 DEF ObjDoes
  <1> HIDE DEF said
  <1> QED
    BY <1>2, <1>3, <1>4, <1>5

(* The fields as they are listed and read.                                   *)
TextSpec(type, spec) ==
  CASE type = "quota" -> [inv |-> spec.inv, bytes |-> RateJson(spec.bytes), used |-> RateJson(spec.used)]
    [] type = "limit" -> LimitText(spec)
    [] type = "ct timeout" -> [spec EXCEPT !.policy = PolicyText(spec)]
    [] type = "ct expectation" -> [spec EXCEPT !.timeout = TimePrint(@)]
    [] OTHER -> spec
ReadSpec(type, spec) ==
  CASE type = "quota" -> [inv |-> spec.inv, bytes |-> RateOf(spec.bytes), used |-> RateOf(spec.used)]
    [] type = "limit" ->
         [inv |-> spec.inv, unit |-> spec.unit, type |-> spec.type, rate |-> NumberOf(spec.rate),
          burst |-> IF "burst" \in DOMAIN spec THEN NumberOf(spec.burst) ELSE 5]
    [] type = "ct expectation" -> [spec EXCEPT !.timeout = TimeParse(@)]
    [] OTHER -> spec

(* The text of an object differs from it by the text of its fields           *)
(* (obj_print_data()), and what is read by what is read of them.             *)
LEMMA ObjTexts ==
  ASSUME NEW type, NEW comment, NEW spec
  PROVE  /\ ObjText(ObjForm(type, comment, spec)) = ObjForm(type, comment, TextSpec(type, spec))
         /\ ~(type = "ct timeout" /\ DOMAIN spec.policy = {}) =>
              ParseObjText(ObjForm(type, comment, spec)) = Done(ObjForm(type, comment, ReadSpec(type, spec)))
  <1> DEFINE o == ObjForm(type, comment, spec)
             text == TextSpec(type, spec)
             read == ReadSpec(type, spec)
  <1>1. o.type = type /\ o.spec = spec
    BY ObjFields
  <1>2. [o EXCEPT !.spec = text] = ObjForm(type, comment, text) /\ [o EXCEPT !.spec = read] = ObjForm(type, comment, read)
    BY ObjExcept
  <1>3. ObjText(o) = [o EXCEPT !.spec = text]
    <2> HIDE DEF o
    <2> QED
      BY <1>1 DEF ObjText, TextSpec
  <1>4. ASSUME ~(type = "ct timeout" /\ DOMAIN spec.policy = {}) PROVE ParseObjText(o) = Done([o EXCEPT !.spec = read])
    <2> HIDE DEF o
    <2> QED
      BY <1>1, <1>4 DEF ParseObjText, ReadSpec
  <1> HIDE DEF text, read
  <1> QED
    BY <1>2, <1>3, <1>4 DEF text, read

(* An object returns from text when its fields do.                           *)
LEMMA ObjReturnsText ==
  ASSUME NEW fam, NEW type, NEW comment, NEW spec, NEW shown, NEW read,
         TextSpec(type, spec) = shown, ~(type = "ct timeout" /\ DOMAIN shown.policy = {}), ReadSpec(type, shown) = read,
         Loads(fam, ObjForm(type, comment, read), ObjForm(type, comment, spec))
  PROVE  Returns(fam, "text", ObjForm(type, comment, spec))
  <1> DEFINE m == ObjForm(type, comment, spec)
             x == ObjForm(type, comment, shown)
             r == ObjForm(type, comment, read)
  <1>1. m.t = "object" /\ x.t = "object"
    BY DEF ObjForm
  <1>2. ObjText(m) = x /\ ParseObjText(x) = Done(r)
    BY ObjTexts
  <1> HIDE DEF m, x, r
  <1>3. DeclListed(fam, "text", m) = Done(x)
    BY <1>1, <1>2 DEF DeclListed, ListedText
  <1>4. DeclRead("text", x) = Done(r)
    BY <1>1, <1>2 DEF DeclRead, ReadText
  <1>5. DeclRead("text", DeclListed(fam, "text", m).stmts) = Done(r)
    BY <1>3, <1>4, Fields
  <1>6. Loads(fam, r, m)
    BY DEF r, m
  <1>7. Returns(fam, "text", m)
    BY <1>5, <1>6, ReturnsAs
  <1> QED
    BY <1>7 DEF m

(* An object without comment returns from JSON when it is printed with the   *)
(* fields it has (obj_print_json()).                                         *)
LEMMA ObjReturnsJson ==
  ASSUME NEW fam, NEW type \in {"counter", "quota", "limit", "ct helper", "secmark"}, NEW spec,
         type = "limit" => ParseLimitJson(LimitJson(spec)) = spec,
         Loads(fam, ObjForm(type, "none", spec), ObjForm(type, "none", spec))
  PROVE  Returns(fam, "json", ObjForm(type, "none", spec))
  <1> DEFINE m == ObjForm(type, "none", spec)
             json == IF type = "limit" THEN LimitJson(spec) ELSE spec
             o == [t |-> "object", type |-> type, spec |-> json]
  <1>1. m.t = "object" /\ m.type = type /\ m.spec = spec
    <2> HIDE DEF json
    <2> QED
      BY DEF ObjForm
  <1>2. ObjJson(m) = o
    <2> HIDE DEF m
    <2> QED
      BY <1>1 DEF ObjJson
  <1>3. ParseObjJson(o) = Done(m)
    <2>1. o.type = type /\ o.spec = json /\ o.t = "object"
      OBVIOUS
    <2> HIDE DEF o
    <2>2. ParseObjJson(o) = Done([t |-> "object", type |-> type, comment |-> "none", spec |-> spec])
      BY <2>1 DEF ParseObjJson
    <2> QED
      BY <2>2 DEF ObjForm
  <1>4. o.t = "object"
    OBVIOUS
  <1> HIDE DEF m, o
  <1>5. DeclListed(fam, "json", m) = Done(o)
    BY <1>1, <1>2 DEF DeclListed, ListedJson
  <1>6. DeclRead("json", o) = Done(m)
    BY <1>3, <1>4 DEF DeclRead, ReadJson
  <1>7. DeclRead("json", DeclListed(fam, "json", m).stmts) = Done(m)
    BY <1>5, <1>6, Fields
  <1>8. Loads(fam, m, m)
    BY DEF m
  <1>9. Returns(fam, "json", m)
    BY <1>7, <1>8, ReturnsAs
  <1> QED
    BY <1>9 DEF m

(* Counters, quotas, limits, marks and synproxies are loaded as they are     *)
(* given.                                                                    *)
LEMMA SimpleLoads ==
  ASSUME NEW fam, NEW type \in {"counter", "quota", "limit", "secmark", "synproxy"}, NEW comment, NEW spec, Simple(spec),
         type = "limit" => spec.burst # 0
  PROVE  Loads(fam, ObjForm(type, comment, spec), ObjForm(type, comment, spec))
  <1> DEFINE o == ObjForm(type, comment, spec)
  <1>1. o.type = type /\ o.spec = spec
    BY ObjFields
  <1>2. EvaluateObj(o) = Done(o)
    <2> HIDE DEF o
    <2> QED
      BY <1>1 DEF EvaluateObj
  <1>3. KeptObj(fam, o) = o
    <2> HIDE DEF o
    <2> QED
      BY <1>1 DEF KeptObj, Simple
  <1>4. type \in ObjKinds
    BY DEF ObjKinds
  <1>5. type # "ct timeout"
    OBVIOUS
  <1>6. ObjDoes(o) = ObjMeans(o, fam)
    BY <1>5, SimpleMeans
  <1> QED
    BY <1>2, <1>3, <1>4, <1>6, ObjLoads

(* Counters, marks and synproxies.                                           *)
LEMMA SimpleReturns ==
  ASSUME NEW fam, NEW type \in {"counter", "secmark", "synproxy"}, NEW comment, NEW spec, Simple(spec)
  PROVE  /\ Returns(fam, "text", ObjForm(type, comment, spec))
         /\ comment = "none" /\ type # "synproxy" => Returns(fam, "json", ObjForm(type, comment, spec))
  <1> DEFINE o == ObjForm(type, comment, spec)
  <1>1. o.t = "object" /\ o.type = type /\ o.comment = comment /\ o.spec = spec /\ [o EXCEPT !.spec = spec] = o
    BY ObjFields, ObjExcept
  <1>2. type \in {"counter", "quota", "limit", "secmark", "synproxy"} /\ type # "limit"
    OBVIOUS
  <1>3. Loads(fam, o, o)
    BY <1>2, SimpleLoads
  <1>4. TextSpec(type, spec) = spec /\ ReadSpec(type, spec) = spec
    BY DEF TextSpec, ReadSpec
  <1>5. type # "ct timeout"
    OBVIOUS
  <1>6. Returns(fam, "text", o)
    BY <1>3, <1>4, <1>5, ObjReturnsText
  <1>7. comment = "none" /\ type # "synproxy" => Returns(fam, "json", o)
    <2> SUFFICES ASSUME comment = "none", type # "synproxy" PROVE Returns(fam, "json", ObjForm(type, "none", spec))
      OBVIOUS
    <2>1. type \in {"counter", "quota", "limit", "ct helper", "secmark"}
      OBVIOUS
    <2> QED
      BY <1>2, <1>3, <2>1, ObjReturnsJson
  <1> QED
    BY <1>6, <1>7

(* A quota is listed in the largest units and read back as the same bytes.   *)
LEMMA QuotaReturns ==
  ASSUME NEW fam, NEW comment, NEW inv, NEW bytes \in Nat, NEW used \in Nat
  PROVE  LET o == ObjForm("quota", comment, QuotaSpec(inv, bytes, used))
         IN  Loads(fam, o, o) /\ Returns(fam, "text", o) /\ (comment = "none" => Returns(fam, "json", o))
  <1> DEFINE spec == QuotaSpec(inv, bytes, used)
             shown == [inv |-> inv, bytes |-> RateJson(bytes), used |-> RateJson(used)]
             o == ObjForm("quota", comment, spec)
  <1>1. Simple(spec)
    BY DEF Simple, QuotaSpec
  <1>2. Loads(fam, o, o)
    <2> HIDE DEF spec
    <2>1. "quota" \in {"counter", "quota", "limit", "secmark", "synproxy"} /\ "quota" # "limit"
      OBVIOUS
    <2> QED
      BY <1>1, <2>1, SimpleLoads
  <1>3. TextSpec("quota", spec) = shown /\ ReadSpec("quota", shown) = spec
    <2>1. spec.inv = inv /\ spec.bytes = bytes /\ spec.used = used
      BY DEF QuotaSpec
    <2>2. RateOf(shown.bytes) = bytes /\ RateOf(shown.used) = used /\ shown.inv = inv
      BY RateReadBack
    <2>3. [inv |-> shown.inv, bytes |-> RateOf(shown.bytes), used |-> RateOf(shown.used)] = spec
      BY <2>2 DEF QuotaSpec
    <2>4. TextSpec("quota", spec) = shown
      <3> HIDE DEF spec
      <3> QED
        BY <2>1 DEF TextSpec
    <2> HIDE DEF spec, shown
    <2>5. ReadSpec("quota", shown) = spec
      BY <2>3 DEF ReadSpec
    <2> QED
      BY <2>4, <2>5
  <1> HIDE DEF spec, shown
  <1>4. "quota" # "ct timeout" /\ "quota" # "limit" /\ "quota" \in {"counter", "quota", "limit", "ct helper", "secmark"}
    OBVIOUS
  <1>5. Returns(fam, "text", o)
    BY <1>2, <1>3, <1>4, ObjReturnsText
  <1>6. comment = "none" => Returns(fam, "json", o)
    BY <1>2, <1>4, ObjReturnsJson
  <1> QED
    BY <1>2, <1>5, <1>6 DEF spec

(* The rate and the burst that a limit is listed with, and the default of a  *)
(* burst that is not listed, are those it has.                               *)
LEMMA LimitTextReturns ==
  ASSUME NEW type \in {"packets", "bytes"}, NEW rate \in Nat, NEW burst \in Nat \ {0}, NEW unit, NEW inv
  PROVE  LET x == LimitText(LimitSpec(type, rate, burst, unit, inv))
         IN  /\ x.inv = inv /\ x.unit = unit /\ x.type = type /\ NumberOf(x.rate) = rate
             /\ (IF "burst" \in DOMAIN x THEN NumberOf(x.burst) ELSE 5) = burst
  <1> DEFINE spec == LimitSpec(type, rate, burst, unit, inv)
             number(n) == IF type = "packets" THEN [val |-> n, unit |-> "packets"] ELSE RateJson(n)
             f == [inv |-> inv, unit |-> unit, type |-> type, rate |-> number(rate)]
             x == LimitText(spec)
  <1>1. spec.type = type /\ spec.rate = rate /\ spec.burst = burst /\ spec.unit = unit /\ spec.inv = inv
    BY DEF LimitSpec
  <1>2. ASSUME NEW n \in Nat PROVE NumberOf(number(n)) = n
    <2>1. CASE type = "packets"
      BY <2>1 DEF NumberOf
    <2>2. CASE type # "packets"
      <3>1. RateJson(n).unit # "packets"
        BY DEF RateJson, RateUnit
      <3> QED
        BY <2>2, <3>1, <1>2, RateReadBack DEF NumberOf
    <2> QED
      BY <2>1, <2>2
  <1>3. number(rate) = (IF spec.type = "packets" THEN [val |-> spec.rate, unit |-> "packets"] ELSE RateJson(spec.rate))
    BY <1>1
  <1>4. number(burst) = (IF spec.type = "packets" THEN [val |-> spec.burst, unit |-> "packets"] ELSE RateJson(spec.burst))
    BY <1>1
  <1>5. NumberOf(number(rate)) = rate /\ NumberOf(number(burst)) = burst
    BY <1>2
  <1> HIDE DEF spec, number
  <1>6. CASE BurstShown(spec)
    <2> DEFINE g == [burst |-> number(burst)]
    <2>1. x = f ++ g
      BY <1>1, <1>3, <1>4, <1>6 DEF LimitText
    <2>2. /\ x.inv = inv /\ x.unit = unit /\ x.type = type /\ x.rate = number(rate)
          /\ "burst" \in DOMAIN x /\ x.burst = number(burst)
      BY <2>1 DEF ++
    <2> HIDE DEF x
    <2> QED
      BY <1>5, <2>2 DEF x, spec
  <1>7. CASE ~BurstShown(spec)
    <2>1. x = f ++ <<>>
      BY <1>1, <1>3, <1>7 DEF LimitText
    <2>2. x.inv = inv /\ x.unit = unit /\ x.type = type /\ x.rate = number(rate) /\ "burst" \notin DOMAIN x
      BY <2>1 DEF ++
    <2>3. burst = 5
      BY <1>1, <1>7 DEF BurstShown
    <2> HIDE DEF x
    <2> QED
      BY <1>5, <2>2, <2>3 DEF x, spec
  <1> QED
    BY <1>6, <1>7

(* So it is with JSON, where a burst in bytes has a unit of its own.         *)
LEMMA LimitJsonReturns ==
  ASSUME NEW type \in {"packets", "bytes"}, NEW rate \in Nat, NEW burst \in Nat \ {0}, NEW unit, NEW inv
  PROVE  ParseLimitJson(LimitJson(LimitSpec(type, rate, burst, unit, inv))) = LimitSpec(type, rate, burst, unit, inv)
  <1> DEFINE spec == LimitSpec(type, rate, burst, unit, inv)
             o == LimitJson(spec)
  <1>1. spec.type = type /\ spec.rate = rate /\ spec.burst = burst /\ spec.unit = unit /\ spec.inv = inv
    BY DEF LimitSpec
  <1>2. CASE type = "packets"
    <2>1. o = ([rate |-> rate, per |-> unit, inv |-> inv] ++ <<>>) ++ [burst |-> burst]
      <3> HIDE DEF spec
      <3> QED
        BY <1>1, <1>2 DEF LimitJson
    <2>2. /\ o.rate = rate /\ o.per = unit /\ o.inv = inv /\ o.burst = burst
          /\ "burst" \in DOMAIN o /\ "rate_unit" \notin DOMAIN o
      BY <2>1 DEF ++
    <2> HIDE DEF o
    <2>3. ParseLimitJson(o) = LimitSpec(type, rate, burst, unit, inv)
      BY <1>2, <2>2 DEF ParseLimitJson, LimitSpec
    <2> QED
      BY <2>3 DEF o
  <1>3. CASE type # "packets"
    <2> DEFINE r == RateJson(rate)
               b == RateJson(burst)
    <2>1. o = ([rate |-> r.val, per |-> unit, inv |-> inv] ++ [rate_unit |-> r.unit]) ++ [burst |-> b.val, burst_unit |-> b.unit]
      <3> HIDE DEF spec
      <3> QED
        BY <1>1, <1>3 DEF LimitJson
    <2> HIDE DEF r, b
    <2>2. /\ o.rate = r.val /\ o.per = unit /\ o.inv = inv /\ o.burst = b.val /\ o.rate_unit = r.unit /\ o.burst_unit = b.unit
          /\ "burst" \in DOMAIN o /\ "rate_unit" \in DOMAIN o
      BY <2>1 DEF ++
    <2>3. RateOf([val |-> r.val, unit |-> r.unit]) = rate /\ RateOf([val |-> b.val, unit |-> b.unit]) = burst
      BY RateReadBack DEF r, b, RateOf
    <2>4. b.val # 0
      <3>1. burst = b.val * RateBytes[b.unit] /\ RateBytes[b.unit] \in Nat
        <4>1. b.unit \in Units
          BY DEF b, RateJson, RateUnit, Units
        <4>2. RateBytes[b.unit] \in Nat
          BY <4>1 DEF RateBytes, Units, Kilo
        <4>3. burst = RateOf(b)
          BY RateReadBack DEF b
        <4> QED
          BY <4>2, <4>3 DEF RateOf
      <3> QED
        BY <3>1
    <2> HIDE DEF o
    <2>5. ParseLimitJson(o) = LimitSpec(type, rate, burst, unit, inv)
      BY <1>3, <2>2, <2>3, <2>4 DEF ParseLimitJson, LimitSpec
    <2> QED
      BY <2>5 DEF o
  <1> QED
    BY <1>2, <1>3

(* A limit is read back from both listings.                                  *)
LEMMA LimitReturns ==
  ASSUME NEW fam, NEW comment,
         NEW type \in {"packets", "bytes"}, NEW rate \in Nat, NEW burst \in Nat \ {0}, NEW unit, NEW inv
  PROVE  LET o == ObjForm("limit", comment, LimitSpec(type, rate, burst, unit, inv))
         IN  Loads(fam, o, o) /\ Returns(fam, "text", o) /\ (comment = "none" => Returns(fam, "json", o))
  <1> DEFINE spec == LimitSpec(type, rate, burst, unit, inv)
             shown == LimitText(spec)
             o == ObjForm("limit", comment, spec)
  <1>1. Simple(spec) /\ spec.burst # 0
    BY DEF Simple, LimitSpec
  <1>2. Loads(fam, o, o)
    <2> HIDE DEF spec
    <2>1. "limit" \in {"counter", "quota", "limit", "secmark", "synproxy"}
      OBVIOUS
    <2> QED
      BY <1>1, <2>1, SimpleLoads
  <1>3. TextSpec("limit", spec) = shown /\ ReadSpec("limit", shown) = spec
    <2>1. /\ shown.inv = inv /\ shown.unit = unit /\ shown.type = type /\ NumberOf(shown.rate) = rate
          /\ (IF "burst" \in DOMAIN shown THEN NumberOf(shown.burst) ELSE 5) = burst
      BY LimitTextReturns
    <2>2. TextSpec("limit", spec) = shown
      <3> HIDE DEF spec
      <3> QED
        BY DEF TextSpec, shown
    <2> HIDE DEF spec, shown
    <2>3. ReadSpec("limit", shown) = LimitSpec(type, rate, burst, unit, inv)
      BY <2>1 DEF ReadSpec, LimitSpec
    <2> QED
      BY <2>2, <2>3 DEF spec
  <1>4. ParseLimitJson(LimitJson(spec)) = spec
    BY LimitJsonReturns
  <1> HIDE DEF spec, shown
  <1>5. "limit" # "ct timeout" /\ "limit" \in {"counter", "quota", "limit", "ct helper", "secmark"}
    OBVIOUS
  <1>6. Returns(fam, "text", o)
    BY <1>2, <1>3, <1>5, ObjReturnsText
  <1>7. comment = "none" => Returns(fam, "json", o)
    BY <1>2, <1>4, <1>5, ObjReturnsJson
  <1> QED
    BY <1>2, <1>6, <1>7 DEF spec

(* What conntrack is given belongs to the family of its table where none is  *)
(* said.                                                                     *)
OfFamily(spec) == spec = [f \in DOMAIN spec |-> spec[f]] /\ "l3" \in DOMAIN spec
InFamily(spec, fam) == [spec EXCEPT !.l3 = OrElse(spec.l3, fam)]

(* So it does for the kernel and for the manual.                             *)
LEMMA FamilyMeans ==
  ASSUME NEW fam, NEW type, NEW comment, NEW spec, type # "limit", OfFamily(spec)
  PROVE  /\ KeptObj(fam, ObjForm(type, comment, spec)) = ObjForm(type, comment, InFamily(spec, fam))
         /\ "policy" \notin DOMAIN spec =>
              ObjMeans(ObjForm(type, comment, spec), fam) = ObjForm(type, comment, InFamily(spec, fam))
  <1> DEFINE o == ObjForm(type, comment, spec)
             family2 == OrElse(spec.l3, fam)
             bound == [spec EXCEPT !.l3 = family2]
             said == [f \in DOMAIN o.spec |->
                        CASE f = "l3" -> OrElse(o.spec.l3, fam)
                          [] f = "policy" -> [s \in StateNames(o.spec.l4) |->
                                                IF s \in DOMAIN o.spec.policy THEN o.spec.policy[s] ELSE DefaultTime(o.spec.l4, s)]
                          [] OTHER -> o.spec[f]]
  <1>0. spec = [f \in DOMAIN spec |-> spec[f]] /\ "l3" \in DOMAIN spec /\ bound = InFamily(spec, fam)
    BY DEF OfFamily, InFamily
  <1>1. o.spec = spec /\ o.type = type
    BY DEF ObjForm
  <1>2. KeptObj(fam, o) = ObjForm(type, comment, bound)
    <2>1. CASE spec.l3 = "none"
      <3>1. [o EXCEPT !.spec.l3 = fam] = ObjForm(type, comment, [spec EXCEPT !.l3 = fam])
        BY DEF ObjForm
      <3>2. family2 = fam
        BY <2>1 DEF OrElse
      <3> HIDE DEF o, family2
      <3>3. KeptObj(fam, o) = [o EXCEPT !.spec.l3 = fam]
        BY <1>0, <1>1, <2>1 DEF KeptObj
      <3> QED
        BY <3>1, <3>2, <3>3
    <2>2. CASE spec.l3 # "none"
      <3>1. family2 = spec.l3
        BY <2>2 DEF OrElse
      <3> HIDE DEF family2
      <3>2. bound = spec
        BY <1>0, <3>1
      <3>3. KeptObj(fam, o) = o
        <4> HIDE DEF o
        <4> QED
          BY <1>1, <2>2 DEF KeptObj
      <3> HIDE DEF bound
      <3> QED
        BY <3>2, <3>3
    <2> QED
      BY <2>1, <2>2
  <1>3. ASSUME "policy" \notin DOMAIN spec PROVE ObjMeans(o, fam) = ObjForm(type, comment, bound)
    <2>1. said = bound
      <3> HIDE DEF o
      <3>1. DOMAIN bound = DOMAIN spec /\ bound = [f \in DOMAIN bound |-> bound[f]]
        BY <1>0
      <3>2. \A f \in DOMAIN spec : said[f] = bound[f]
        <4> SUFFICES ASSUME NEW f \in DOMAIN spec PROVE said[f] = bound[f]
          OBVIOUS
        <4>1. CASE f = "l3"
          BY <1>0, <1>1, <4>1
        <4>2. CASE f # "l3"
          <5>1. f # "policy"
            BY <1>3
          <5>2. said[f] = spec[f]
            BY <1>1, <4>2, <5>1
          <5>3. bound[f] = spec[f]
            BY <4>2
          <5> QED
            BY <5>2, <5>3
        <4> QED
          BY <4>1, <4>2
      <3>3. DOMAIN said = DOMAIN spec /\ said = [f \in DOMAIN said |-> said[f]]
        BY <1>1
      <3> HIDE DEF said, bound
      <3> QED
        BY <3>1, <3>2, <3>3
    <2>2. ObjMeans(o, fam) = [o EXCEPT !.spec = said]
      <3> HIDE DEF o
      <3> QED
        BY DEF ObjMeans
    <2> HIDE DEF said, bound
    <2> QED
      BY <2>1, <2>2, ObjExcept
  <1> HIDE DEF bound
  <1> QED
    BY <1>0, <1>2, <1>3

(* A default that is taken is not taken again.                               *)
LEMMA OrElseTwice == \A l3, fam : OrElse(OrElse(l3, fam), fam) = OrElse(l3, fam)
  BY DEF OrElse

(* A helper without a protocol is loaded with the family of its table.       *)
LEMMA HelperLoads ==
  ASSUME NEW fam, NEW comment, NEW helper, NEW l4, NEW l3
  PROVE  Loads(fam, ObjForm("ct helper", comment, HelperSpec(helper, l4, l3)),
                    ObjForm("ct helper", comment, HelperSpec(helper, l4, OrElse(l3, fam))))
  <1> DEFINE spec == HelperSpec(helper, l4, l3)
             kept == HelperSpec(helper, l4, OrElse(l3, fam))
             o == ObjForm("ct helper", comment, spec)
  <1>1. OfFamily(spec) /\ "policy" \notin DOMAIN spec /\ InFamily(spec, fam) = kept
    BY DEF HelperSpec, OfFamily, InFamily
  <1>2. EvaluateObj(o) = Done(o)
    <2>1. o.type = "ct helper"
      BY DEF ObjForm
    <2> HIDE DEF o
    <2> QED
      BY <2>1 DEF EvaluateObj
  <1> HIDE DEF spec, kept
  <1>3. KeptObj(fam, o) = ObjForm("ct helper", comment, kept) /\ ObjMeans(o, fam) = ObjForm("ct helper", comment, kept)
    <2>1. "ct helper" # "limit"
      OBVIOUS
    <2>2. KeptObj(fam, o) = ObjForm("ct helper", comment, InFamily(spec, fam))
      BY <1>1, <2>1, FamilyMeans
    <2>3. ObjMeans(o, fam) = ObjForm("ct helper", comment, InFamily(spec, fam))
      BY <1>1, <2>1, FamilyMeans
    <2> QED
      BY <1>1, <2>2, <2>3
  <1>4. ObjDoes(ObjForm("ct helper", comment, kept)) = ObjForm("ct helper", comment, kept)
    <2>1. ObjForm("ct helper", comment, kept).type # "ct timeout"
      BY DEF ObjForm
    <2> QED
      BY <2>1 DEF ObjDoes
  <1>5. "ct helper" \in ObjKinds
    BY DEF ObjKinds
  <1> QED
    BY <1>2, <1>3, <1>4, <1>5, ObjLoads DEF spec, kept

(* A helper is listed with the protocol it was loaded with.                  *)
LEMMA HelperReturns ==
  ASSUME NEW fam, NEW comment, NEW helper, NEW l4, NEW l3
  PROVE  LET m == ObjForm("ct helper", comment, HelperSpec(helper, l4, OrElse(l3, fam)))
         IN  Returns(fam, "text", m) /\ (comment = "none" => Returns(fam, "json", m))
  <1> DEFINE spec == HelperSpec(helper, l4, OrElse(l3, fam))
             m == ObjForm("ct helper", comment, spec)
  <1>1. Loads(fam, m, m)
    <2>1. Loads(fam, m, ObjForm("ct helper", comment, HelperSpec(helper, l4, OrElse(OrElse(l3, fam), fam))))
      BY HelperLoads
    <2> QED
      BY <2>1, OrElseTwice
  <1> HIDE DEF spec
  <1>2. TextSpec("ct helper", spec) = spec /\ ReadSpec("ct helper", spec) = spec
    BY DEF TextSpec, ReadSpec
  <1>3. "ct helper" # "ct timeout" /\ "ct helper" # "limit" /\ "ct helper" \in {"counter", "quota", "limit", "ct helper", "secmark"}
    OBVIOUS
  <1>4. Returns(fam, "text", m)
    BY <1>1, <1>2, <1>3, ObjReturnsText
  <1>5. comment = "none" => Returns(fam, "json", m)
    BY <1>1, <1>3, ObjReturnsJson
  <1> QED
    BY <1>4, <1>5 DEF spec

ExpectFits(l4, dport, timeout, size) == l4 # "none" /\ 0 \notin {dport, timeout, size}
(* An expectation needs a protocol, a port, a timeout and a size;            *)
(* ct_expect_evaluate() refuses one that has not all of them.                *)
LEMMA ExpectLoads ==
  ASSUME NEW fam, NEW comment, NEW l4, NEW l3, NEW dport, NEW timeout, NEW size
  PROVE  LET o == ObjForm("ct expectation", comment, ExpectSpec(l4, l3, dport, timeout, size))
         IN  IF ExpectFits(l4, dport, timeout, size)
             THEN Loads(fam, o, ObjForm("ct expectation", comment, ExpectSpec(l4, OrElse(l3, fam), dport, timeout, size)))
             ELSE EvaluateObj(o) = Refused
  <1> DEFINE spec == ExpectSpec(l4, l3, dport, timeout, size)
             kept == ExpectSpec(l4, OrElse(l3, fam), dport, timeout, size)
             o == ObjForm("ct expectation", comment, spec)
  <1>0. OfFamily(spec) /\ "policy" \notin DOMAIN spec /\ InFamily(spec, fam) = kept
    BY DEF ExpectSpec, OfFamily, InFamily
  <1>1. spec.l4 = l4 /\ spec.dport = dport /\ spec.timeout = timeout /\ spec.size = size
    BY DEF ExpectSpec
  <1>2. o.type = "ct expectation" /\ o.spec = spec
    BY DEF ObjForm
  <1>3. CASE ~ExpectFits(l4, dport, timeout, size)
    <2>1. o.spec.l4 = "none" \/ 0 \in {o.spec.dport, o.spec.timeout, o.spec.size}
      <3> HIDE DEF o, spec
      <3> QED
        BY <1>1, <1>2, <1>3 DEF ExpectFits
    <2>2. EvaluateObj(o) = Refused
      <3> HIDE DEF o, spec
      <3> QED
        BY <1>2, <2>1 DEF EvaluateObj
    <2> QED
      BY <1>3, <2>2
  <1>4. CASE ExpectFits(l4, dport, timeout, size)
    <2>1. ~(o.spec.l4 = "none" \/ 0 \in {o.spec.dport, o.spec.timeout, o.spec.size})
      <3> HIDE DEF o, spec
      <3> QED
        BY <1>1, <1>2, <1>4 DEF ExpectFits
    <2>2. EvaluateObj(o) = Done(o)
      <3> HIDE DEF o, spec
      <3> QED
        BY <1>2, <2>1 DEF EvaluateObj
    <2> HIDE DEF spec, kept
    <2>3. KeptObj(fam, o) = ObjForm("ct expectation", comment, kept) /\ ObjMeans(o, fam) = ObjForm("ct expectation", comment, kept)
      <3>1. "ct expectation" # "limit"
        OBVIOUS
      <3>2. KeptObj(fam, o) = ObjForm("ct expectation", comment, InFamily(spec, fam))
        BY <1>0, <3>1, FamilyMeans
      <3>3. ObjMeans(o, fam) = ObjForm("ct expectation", comment, InFamily(spec, fam))
        BY <1>0, <3>1, FamilyMeans
      <3> QED
        BY <1>0, <3>2, <3>3
    <2>4. ObjDoes(ObjForm("ct expectation", comment, kept)) = ObjForm("ct expectation", comment, kept)
      <3>1. ObjForm("ct expectation", comment, kept).type # "ct timeout"
        BY DEF ObjForm
      <3> QED
        BY <3>1 DEF ObjDoes
    <2>5. "ct expectation" \in ObjKinds
      BY DEF ObjKinds
    <2>6. Loads(fam, o, ObjForm("ct expectation", comment, kept))
      BY <2>2, <2>3, <2>4, <2>5, ObjLoads
    <2> QED
      BY <1>4, <2>6 DEF spec, kept
  <1> QED
    BY <1>3, <1>4

(* An expectation is read back with the same timeout, from text.             *)
LEMMA ExpectReturns ==
  ASSUME NEW fam, NEW comment, NEW l4, NEW l3, NEW dport, NEW timeout \in Nat, NEW size, ExpectFits(l4, dport, timeout, size)
  PROVE  Returns(fam, "text", ObjForm("ct expectation", comment, ExpectSpec(l4, OrElse(l3, fam), dport, timeout, size)))
  <1> DEFINE spec == ExpectSpec(l4, OrElse(l3, fam), dport, timeout, size)
             shown == ExpectSpec(l4, OrElse(l3, fam), dport, TimePrint(timeout), size)
             m == ObjForm("ct expectation", comment, spec)
  <1>1. Loads(fam, m, m)
    <2>1. Loads(fam, m, ObjForm("ct expectation", comment, ExpectSpec(l4, OrElse(OrElse(l3, fam), fam), dport, timeout, size)))
      BY ExpectLoads
    <2> QED
      BY <2>1, OrElseTwice
  <1>2. [spec EXCEPT !.timeout = TimePrint(@)] = shown /\ [shown EXCEPT !.timeout = TimeParse(@)] = spec
    <2>1. spec.timeout = timeout /\ shown.timeout = TimePrint(timeout)
      BY DEF ExpectSpec
    <2>2. [spec EXCEPT !.timeout = TimePrint(timeout)] = shown /\ [shown EXCEPT !.timeout = timeout] = spec
      BY DEF ExpectSpec
    <2> HIDE DEF spec, shown
    <2> QED
      BY <2>1, <2>2, TimeReadBack
  <1> HIDE DEF spec, shown
  <1>3. TextSpec("ct expectation", spec) = shown /\ ReadSpec("ct expectation", shown) = spec
    BY <1>2 DEF TextSpec, ReadSpec
  <1>4. "ct expectation" # "ct timeout"
    OBVIOUS
  <1>5. Returns(fam, "text", m)
    BY <1>1, <1>3, <1>4, ObjReturnsText
  <1> QED
    BY <1>5 DEF spec

(* A policy of timeouts: what is not given has the default.                  *)
LEMMA PolicyExcept ==
  \A type, comment, l4, l3, policy, other :
    [ObjForm(type, comment, TimeoutSpec(l4, l3, policy)) EXCEPT !.spec.policy = other]
      = ObjForm(type, comment, TimeoutSpec(l4, l3, other))
  BY DEF ObjForm, TimeoutSpec

(* A state of a protocol is found by its name, which no other has.           *)
LEMMA StateIsThere ==
  ASSUME NEW l4 \in {"tcp", "udp"}, NEW i \in DOMAIN TimeoutProtocol[l4]
  PROVE  /\ TimeoutProtocol[l4][i].name \in StateNames(l4)
         /\ (CHOOSE j \in DOMAIN TimeoutProtocol[l4] : TimeoutProtocol[l4][j].name = TimeoutProtocol[l4][i].name) = i
         /\ DefaultTime(l4, TimeoutProtocol[l4][i].name) = TimeoutProtocol[l4][i].dflt
  <1> DEFINE states == TimeoutProtocol[l4]
  <1>1. \A a, b \in DOMAIN states : states[a].name = states[b].name => a = b
    BY StatesDiffer
  <1>2. Range(states) = {states[x] : x \in DOMAIN states}
    BY DEF Range
  <1> HIDE DEF states
  <1>3. states[i] \in Range(states)
    BY <1>2 DEF states
  <1>4. states[i].name \in StateNames(l4)
    BY <1>3 DEF StateNames, states
  <1>5. (CHOOSE j \in DOMAIN states : states[j].name = states[i].name) = i
    BY <1>1 DEF states
  <1>6. DefaultTime(l4, states[i].name) = states[i].dflt
    <2> DEFINE s == CHOOSE x \in Range(states) : x.name = states[i].name
    <2>1. s \in Range(states) /\ s.name = states[i].name
      BY <1>3
    <2> HIDE DEF s
    <2>2. PICK j \in DOMAIN states : s = states[j]
      BY <1>2, <2>1
    <2>3. i \in DOMAIN states
      BY DEF states
    <2>4. j = i
      BY <1>1, <2>1, <2>2, <2>3
    <2>5. s = states[i]
      BY <2>2, <2>4
    <2> QED
      BY <2>5 DEF DefaultTime, s, states
  <1> QED
    BY <1>4, <1>5, <1>6 DEF states

(* Times of the states of a protocol, by their names.                        *)
TimesByName(l4, times) ==
  [name \in StateNames(l4) |-> times[CHOOSE i \in DOMAIN TimeoutProtocol[l4] : TimeoutProtocol[l4][i].name = name]]
TimesSaid(l4, policy) == [s \in StateNames(l4) |-> IF s \in DOMAIN policy THEN policy[s] ELSE DefaultTime(l4, s)]

(* The times that are loaded for the states are those given, and the         *)
(* defaults of the others.                                                   *)
LEMMA TimesMeant ==
  ASSUME NEW l4 \in {"tcp", "udp"}, NEW policy
  PROVE  TimesByName(l4, TimesOf(l4, policy)) = TimesSaid(l4, policy)
  <1> DEFINE states == TimeoutProtocol[l4]
             times == TimesOf(l4, policy)
             number(name) == CHOOSE i \in DOMAIN states : states[i].name = name
             meant(s) == IF s \in DOMAIN policy THEN policy[s] ELSE DefaultTime(l4, s)
  <1> SUFFICES ASSUME NEW s \in StateNames(l4) PROVE times[number(s)] = meant(s)
    BY DEF TimesByName, TimesSaid
  <1>1. PICK i \in DOMAIN states : s = states[i].name
    BY DEF StateNames, Range
  <1>2. number(s) = i /\ DefaultTime(l4, s) = states[i].dflt
    BY <1>1, StateIsThere
  <1>3. times[i] = IF states[i].name \in DOMAIN policy THEN policy[states[i].name] ELSE states[i].dflt
    BY DEF TimesOf
  <1> HIDE DEF states, times, number
  <1> QED
    BY <1>1, <1>2, <1>3

(* A policy that names a state its protocol has not is refused; another is   *)
(* loaded with a time for every state (ct_timeout_evaluate()).               *)
LEMMA TimeoutLoads ==
  ASSUME NEW fam, NEW comment, NEW l4 \in {"tcp", "udp"}, NEW l3, NEW policy
  PROVE  LET o == ObjForm("ct timeout", comment, TimeoutSpec(l4, l3, policy))
         IN  IF DOMAIN policy \subseteq StateNames(l4)
             THEN Loads(fam, o, ObjForm("ct timeout", comment, TimeoutSpec(l4, OrElse(l3, fam), TimesOf(l4, policy))))
             ELSE EvaluateObj(o) = Refused
  <1> DEFINE type == "ct timeout"
             spec == TimeoutSpec(l4, l3, policy)
             times == TimesOf(l4, policy)
             sent == TimeoutSpec(l4, l3, times)
             kept == TimeoutSpec(l4, OrElse(l3, fam), times)
             o == ObjForm(type, comment, spec)
             known == ObjForm(type, comment, sent)
             m == ObjForm(type, comment, kept)
             meant == TimesSaid(l4, policy)
             done == TimeoutSpec(l4, OrElse(l3, fam), meant)
  <1> SUFFICES IF DOMAIN policy \subseteq StateNames(l4) THEN Loads(fam, o, m) ELSE EvaluateObj(o) = Refused
    OBVIOUS
  <1>0. type = "ct timeout" /\ type # "limit" /\ type \in ObjKinds
    BY DEF ObjKinds
  <1> HIDE DEF type
  <1>1. /\ o.type = type /\ o.spec = spec /\ spec.l4 = l4 /\ spec.policy = policy /\ spec.l3 = l3
        /\ DOMAIN spec = {"l4", "l3", "policy"}
    BY DEF ObjForm, TimeoutSpec
  <1>2. CASE ~(DOMAIN policy \subseteq StateNames(l4))
    <2>1. EvaluateObj(o) = Refused
      <3>1. DOMAIN o.spec.policy \ StateNames(o.spec.l4) # {}
        <4> HIDE DEF o, spec
        <4> QED
          BY <1>1, <1>2
      <3> HIDE DEF o, spec
      <3> QED
        BY <1>0, <1>1, <3>1 DEF EvaluateObj
    <2> QED
      BY <1>2, <2>1
  <1>3. CASE DOMAIN policy \subseteq StateNames(l4)
    <2>1. EvaluateObj(o) = Done(known)
      <3>1. ~(DOMAIN o.spec.policy \ StateNames(o.spec.l4) # {})
        <4> HIDE DEF o, spec
        <4> QED
          BY <1>1, <1>3
      <3>2. [o EXCEPT !.spec.policy = times] = known
        BY PolicyExcept
      <3>3. EvaluateObj(o) = Done([o EXCEPT !.spec.policy = times])
        <4> HIDE DEF o, spec
        <4> QED
          BY <1>0, <1>1, <3>1 DEF EvaluateObj
      <3> QED
        BY <3>2, <3>3
    <2>2. KeptObj(fam, known) = m
      <3> HIDE DEF times
      <3>1. OfFamily(sent)
        BY DEF TimeoutSpec, OfFamily
      <3>2. InFamily(sent, fam) = kept
        BY DEF TimeoutSpec, InFamily
      <3> HIDE DEF sent, kept
      <3>3. KeptObj(fam, ObjForm(type, comment, sent)) = ObjForm(type, comment, InFamily(sent, fam))
        BY <1>0, <3>1, FamilyMeans
      <3> QED
        BY <3>2, <3>3
    <2>3. ObjDoes(m) = ObjForm(type, comment, done)
      <3>1. m.type = type /\ m.spec = kept /\ kept.l4 = l4 /\ kept.policy = times
        BY DEF ObjForm, TimeoutSpec
      <3>2. [m EXCEPT !.spec.policy = meant] = ObjForm(type, comment, done)
        BY PolicyExcept
      <3>3. TimesByName(l4, times) = meant
        BY TimesMeant
      <3> HIDE DEF m, kept, times, meant
      <3> DEFINE did(z) == TimesByName(z.l4, z.policy)
      <3>4. did(m.spec) = meant
        BY <3>1, <3>3
      <3>5. ObjDoes(m) = [m EXCEPT !.spec.policy = did(m.spec)]
        <4>1. ~(m.type # "ct timeout")
          BY <1>0, <3>1
        <4> QED
          BY <4>1, Zenon DEF ObjDoes, TimesByName
      <3> QED
        BY <3>2, <3>4, <3>5
    <2>4. ObjMeans(o, fam) = ObjForm(type, comment, done)
      <3> DEFINE said == [f \in DOMAIN o.spec |->
                            CASE f = "l3" -> OrElse(o.spec.l3, fam)
                              [] f = "policy" -> [s \in StateNames(o.spec.l4) |->
                                                    IF s \in DOMAIN o.spec.policy THEN o.spec.policy[s] ELSE DefaultTime(o.spec.l4, s)]
                              [] OTHER -> o.spec[f]]
      <3>1. ObjMeans(o, fam) = [o EXCEPT !.spec = said]
        <4> HIDE DEF o
        <4> QED
          BY DEF ObjMeans
      <3>2. said = done
        <4>1. /\ done = [f \in DOMAIN done |-> done[f]] /\ DOMAIN done = {"l4", "l3", "policy"}
              /\ done["l4"] = l4 /\ done["l3"] = OrElse(l3, fam) /\ done["policy"] = meant
          <5> HIDE DEF meant
          <5> QED
            BY DEF TimeoutSpec
        <4> HIDE DEF o, spec
        <4>2. said["l4"] = l4
          BY <1>1
        <4>3. said["l3"] = OrElse(l3, fam)
          BY <1>1
        <4>4. said["policy"] = meant
          BY <1>1 DEF TimesSaid
        <4>5. DOMAIN said = {"l4", "l3", "policy"} /\ said = [f \in DOMAIN said |-> said[f]]
          BY <1>1
        <4> HIDE DEF said, done
        <4>6. \A f \in {"l4", "l3", "policy"} : said[f] = done[f]
          BY <4>1, <4>2, <4>3, <4>4
        <4> QED
          BY <4>1, <4>5, <4>6
      <3> HIDE DEF said, done, spec
      <3> QED
        BY <3>1, <3>2, ObjExcept
    <2>6. Loads(fam, o, m)
      <3> HIDE DEF spec, sent, kept, done
      <3> QED
        BY <2>1, <2>2, <2>3, <2>4, <1>0, ObjLoads
    <2> QED
      BY <1>3, <2>6
  <1> QED
    BY <1>2, <1>3

(* So a policy is refused that names another state.                          *)
LEMMA TimeoutRefused ==
  ASSUME NEW fam, NEW comment, NEW l4 \in {"tcp", "udp"}, NEW l3, NEW policy, ~(DOMAIN policy \subseteq StateNames(l4))
  PROVE  EvaluateObj(ObjForm("ct timeout", comment, TimeoutSpec(l4, l3, policy))) = Refused
  BY TimeoutLoads

(* A policy with a time that is not its default is listed and read back      *)
(* (print_proto_timeout_policy()); one without is listed empty and refused.  *)
LEMMA TimeoutReturns ==
  ASSUME NEW fam, NEW comment, NEW l4 \in {"tcp", "udp"}, NEW l3, NEW policy,
         \E i \in DOMAIN TimeoutProtocol[l4] : TimesOf(l4, policy)[i] # TimeoutProtocol[l4][i].dflt
  PROVE  Returns(fam, "text", ObjForm("ct timeout", comment, TimeoutSpec(l4, OrElse(l3, fam), TimesOf(l4, policy))))
  <1> DEFINE states == TimeoutProtocol[l4]
             times == TimesOf(l4, policy)
             spec == TimeoutSpec(l4, OrElse(l3, fam), times)
             told == PolicyText(spec)
             shown == TimeoutSpec(l4, OrElse(l3, fam), told)
             changed == {i \in DOMAIN states : times[i] # states[i].dflt}
  <1>1. spec.l4 = l4 /\ spec.policy = times
    BY DEF TimeoutSpec
  <1>2. DOMAIN times = DOMAIN states /\ times = [i \in DOMAIN states |-> times[i]]
    BY DEF TimesOf
  <1>3. /\ DOMAIN told = {states[i].name : i \in changed}
        /\ \A i \in changed : told[states[i].name] = times[i]
    <2> DEFINE at(name) == CHOOSE i \in changed : states[i].name = name
    <2>1. told = [name \in {states[i].name : i \in changed} |-> times[at(name)]]
      <3> HIDE DEF spec, times
      <3> QED
        BY <1>1 DEF PolicyText
    <2>2. \A i \in changed : at(states[i].name) = i
      BY StatesDiffer
    <2> HIDE DEF states, changed, at, told, times
    <2> QED
      BY <2>1, <2>2
  <1>4. DOMAIN told # {}
    <2> HIDE DEF told, times
    <2> QED
      BY <1>3 DEF times
  <1>5. DOMAIN told \subseteq StateNames(l4)
    <2> HIDE DEF told, times
    <2> QED
      BY <1>3, StateIsThere
  <1>6. TimesOf(l4, told) = times
    <2> SUFFICES ASSUME NEW i \in DOMAIN states
                 PROVE  (IF states[i].name \in DOMAIN told THEN told[states[i].name] ELSE states[i].dflt) = times[i]
      <3> HIDE DEF told, times
      <3> QED
        BY <1>2 DEF TimesOf
    <2> HIDE DEF told, times
    <2>1. CASE i \in changed
      BY <1>3, <2>1
    <2>2. CASE i \notin changed
      <3>1. states[i].name \notin DOMAIN told
        BY <1>3, <2>2, StatesDiffer
      <3> QED
        BY <2>2, <3>1
    <2> QED
      BY <2>1, <2>2
  <1> HIDE DEF told, times
  <1>7. Loads(fam, ObjForm("ct timeout", comment, shown), ObjForm("ct timeout", comment, spec))
    <2>1. Loads(fam, ObjForm("ct timeout", comment, TimeoutSpec(l4, OrElse(l3, fam), told)),
                     ObjForm("ct timeout", comment, TimeoutSpec(l4, OrElse(OrElse(l3, fam), fam), TimesOf(l4, told))))
      BY <1>5, TimeoutLoads
    <2> QED
      BY <1>6, <2>1, OrElseTwice
  <1>8. TextSpec("ct timeout", spec) = shown
    <2>1. [spec EXCEPT !.policy = told] = shown
      BY DEF TimeoutSpec
    <2> HIDE DEF spec, shown
    <2> QED
      BY <2>1 DEF TextSpec, told
  <1>9. ReadSpec("ct timeout", shown) = shown /\ shown.policy = told
    <2>1. shown.policy = told
      BY DEF TimeoutSpec
    <2> HIDE DEF shown
    <2> QED
      BY <2>1 DEF ReadSpec
  <1> HIDE DEF spec, shown
  <1>10. Returns(fam, "text", ObjForm("ct timeout", comment, spec))
    BY <1>4, <1>7, <1>8, <1>9, ObjReturnsText
  <1> QED
    BY <1>10 DEF spec, times

-----------------------------------------------------------------------------
(* Every declaration but a set.                                              *)

(* What is given is refused, or loaded and read back.                        *)
LEMMA RefusedGoes ==
  ASSUME NEW fam, NEW how, NEW d, DeclEvaluated(fam, d) = Refused
  PROVE  GoesThrough(fam, how, d)
  BY Fields DEF GoesThrough, Comes, Loads

(* What is loaded goes through when it returns.                              *)
LEMMA LoadedGoes ==
  ASSUME NEW fam, NEW how, NEW d, NEW m, Loads(fam, d, m), Returns(fam, how, m)
  PROVE  GoesThrough(fam, how, d)
  <1>1. Comes(fam, d)
    BY DEF Comes, Loads
  <1>2. ASSUME NEW n, Loads(fam, d, n) PROVE Returns(fam, how, n)
    <2>1. n = m
      BY <1>2, OneMessage
    <2> QED
      BY <2>1
  <1> QED
    BY <1>1, <1>2 DEF GoesThrough

Told(how, d) == how = "text" \/ (how = "json" /\ InJson(d))

(* Tables.                                                                   *)
LEMMA TableGoes ==
  ASSUME NEW fam, NEW how, NEW d, d.t = "table", TableGiven(d), Told(how, d)
  PROVE  GoesThrough(fam, how, d)
  <1>1. Loads(fam, d, d)
    BY TableLoads DEF TableGiven
  <1>2. Returns(fam, "text", d)
    <2>1. Returns(fam, "text", TableForm(d.flags, d.comment))
      BY TableReturns DEF TableGiven
    <2> QED
      BY <2>1 DEF TableGiven
  <1>3. CASE how = "json"
    <2>1. d.flags = {} /\ d.comment = "none"
      BY <1>3 DEF Told, InJson
    <2>2. d = TableForm({}, "none")
      BY <2>1 DEF TableGiven
    <2>3. Returns(fam, "json", TableForm({}, "none"))
      <3>1. {} = {} \/ \E f \in {} : {} = {f}
        OBVIOUS
      <3> QED
        BY <3>1, TableReturns
    <2> QED
      BY <1>1, <1>3, <2>2, <2>3, LoadedGoes
  <1>4. CASE how = "text"
    BY <1>1, <1>2, <1>4, LoadedGoes
  <1> QED
    BY <1>3, <1>4 DEF Told

(* What the parts refuse is refused.                                         *)
LEMMA RefusedIs == ASSUME NEW fam, NEW d PROVE
    /\ d.t = "chain" /\ EvaluateChain(fam, d) = Refused => DeclEvaluated(fam, d) = Refused
    /\ d.t = "flowtable" /\ EvaluateFlowtable(d) = Refused => DeclEvaluated(fam, d) = Refused
    /\ d.t = "object" /\ EvaluateObj(d) = Refused => DeclEvaluated(fam, d) = Refused
  <1>1. ASSUME d.t = "chain", EvaluateChain(fam, d) = Refused PROVE DeclEvaluated(fam, d) = Refused
    BY <1>1, Fields DEF DeclEvaluated
  <1>2. ASSUME d.t = "flowtable", EvaluateFlowtable(d) = Refused PROVE DeclEvaluated(fam, d) = Refused
    BY <1>2, Fields DEF DeclEvaluated
  <1>3. ASSUME d.t = "object", EvaluateObj(d) = Refused PROVE DeclEvaluated(fam, d) = Refused
    BY <1>3, Fields DEF DeclEvaluated
  <1> QED
    BY <1>1, <1>2, <1>3

(* Chains, with a hook and without.                                          *)
LEMMA ChainGoes ==
  ASSUME NEW fam \in AllFamilies, NEW how, NEW d, d.t = "chain", ChainGiven(d), Told(how, d)
  PROVE  GoesThrough(fam, how, d)
  <1>1. CASE d = PlainForm(d.comment)
    <2>1. Loads(fam, d, PlainMessage(fam, d.comment))
      BY <1>1, PlainLoads
    <2>2. CASE how = "text"
      <3>1. Returns(fam, "text", PlainMessage(fam, d.comment))
        BY PlainReturns
      <3> QED
        BY <2>1, <2>2, <3>1, LoadedGoes
    <2>3. CASE how = "json"
      <3>1. d.comment = "none"
        BY <2>3 DEF Told, InJson
      <3>2. Returns(fam, "json", PlainMessage(fam, "none"))
        BY PlainReturns
      <3> QED
        BY <2>1, <2>3, <3>1, <3>2, LoadedGoes
    <2> QED
      BY <2>2, <2>3 DEF Told
  <1>2. CASE d # PlainForm(d.comment)
    <2> DEFINE names == DevNames(d.devs)
    <2>1. d = BaseForm(d.type, d.hook, d.prio, d.policy, d.flags, d.comment, names) /\ d.prio.off \in Int /\ DeviceList(names)
      BY <1>2 DEF ChainGiven
    <2>2. PICK type, hook, prio, policy, flags, comment :
            /\ d = BaseForm(type, hook, prio, policy, flags, comment, names) /\ prio.off \in Int
            /\ flags = d.flags /\ comment = d.comment
      BY <2>1
    <2> DEFINE m == BaseMessage(fam, type, HookNum(fam, hook), Priority(fam, hook, prio), OrElse(policy, "accept"), flags, comment, names)
    <2>3. how = "json" => flags = {} /\ comment = "none" /\ names = <<>>
      <3>1. how = "json" => d.flags = {} /\ d.comment = "none" /\ d.devs = <<>>
        BY DEF Told, InJson
      <3>2. DevNames(<<>>) = <<>>
        BY DEF DevNames
      <3> QED
        BY <2>2, <3>1, <3>2
    <2> HIDE DEF names
    <2>4. CASE FitsHook(fam, hook, prio, names)
      <3>1. Loads(fam, d, m)
        BY <2>1, <2>2, <2>4, BaseLoads
      <3>2. Returns(fam, "text", m) /\ (flags = {} /\ comment = "none" /\ names = <<>> => Returns(fam, "json", m))
        BY <2>1, <2>2, <2>4, BaseReturns
      <3> HIDE DEF m
      <3>3. Returns(fam, how, m)
        BY <2>3, <3>2 DEF Told
      <3> QED
        BY <3>1, <3>3, LoadedGoes
    <2>5. CASE ~FitsHook(fam, hook, prio, names)
      <3>1. EvaluateChain(fam, BaseForm(type, hook, prio, policy, flags, comment, names)) = Refused
        BY <2>1, <2>5, BaseEvaluated
      <3>2. EvaluateChain(fam, d) = Refused
        BY <2>2, <3>1
      <3> QED
        BY <3>2, RefusedIs, RefusedGoes
    <2> QED
      BY <2>4, <2>5
  <1> QED
    BY <1>1, <1>2

(* Flowtables.                                                               *)
LEMMA FlowtableGoes ==
  ASSUME NEW fam, NEW how, NEW d, d.t = "flowtable", FlowtableGiven(d), Told(how, d)
  PROVE  GoesThrough(fam, how, d)
  <1>1. PICK hook, prio, name, flags : d = FlowForm(hook, prio, name, flags) /\ prio.off \in Int
    BY DEF FlowtableGiven
  <1>2. how = "text"
    BY DEF Told, InJson
  <1>3. CASE FlowFits(hook, prio)
    <2>1. Loads(fam, d, FlowMessage(FlowHook(hook), FlowPriority(hook, prio), name, flags))
      BY <1>1, <1>3, FlowLoads
    <2>2. Returns(fam, "text", FlowMessage(FlowHook(hook), FlowPriority(hook, prio), name, flags))
      BY <1>1, <1>3, FlowReturns
    <2> QED
      BY <1>2, <2>1, <2>2, LoadedGoes
  <1>4. CASE ~FlowFits(hook, prio)
    <2>1. EvaluateFlowtable(d) = Refused
      BY <1>1, <1>4, FlowEvaluated
    <2> QED
      BY <2>1, RefusedIs, RefusedGoes
  <1> QED
    BY <1>3, <1>4

(* Objects of every kind.                                                    *)
LEMMA ObjectGoes ==
  ASSUME NEW fam, NEW how, NEW d, d.t = "object", ObjectGiven(d), Told(how, d)
  PROVE  GoesThrough(fam, how, d)
  <1> DEFINE spec == d.spec
             comment == d.comment
  <1>1. PICK type : type = d.type /\ d = ObjForm(type, comment, spec)
    BY DEF ObjectGiven
  <1>2. how = "json" => type \in {"counter", "quota", "limit", "ct helper", "secmark"} /\ comment = "none"
    BY <1>1 DEF Told, InJson
  <1>3. how = "text" \/ how = "json"
    BY DEF Told
  <1> HIDE DEF spec, comment
  <1>4. CASE type \in {"counter", "secmark", "synproxy"} /\ Simple(spec)
    <2>1. type \in {"counter", "quota", "limit", "secmark", "synproxy"} /\ (type = "limit" => spec.burst # 0)
      BY <1>4
    <2>2. Loads(fam, d, d)
      BY <1>1, <1>4, <2>1, SimpleLoads
    <2>3. Returns(fam, "text", d) /\ (comment = "none" /\ type # "synproxy" => Returns(fam, "json", d))
      BY <1>1, <1>4, SimpleReturns
    <2>4. type \in {"counter", "quota", "limit", "ct helper", "secmark"} => type # "synproxy"
      OBVIOUS
    <2>5. Returns(fam, how, d)
      BY <1>2, <1>3, <2>3, <2>4
    <2> QED
      BY <2>2, <2>5, LoadedGoes
  <1>5. CASE type = "quota" /\ spec = QuotaSpec(spec.inv, spec.bytes, spec.used) /\ {spec.bytes, spec.used} \subseteq Nat
    <2>1. d = ObjForm("quota", comment, QuotaSpec(spec.inv, spec.bytes, spec.used)) /\ spec.bytes \in Nat /\ spec.used \in Nat
      BY <1>1, <1>5
    <2>2. Loads(fam, d, d) /\ Returns(fam, "text", d) /\ (comment = "none" => Returns(fam, "json", d))
      BY <2>1, QuotaReturns
    <2> QED
      BY <1>2, <1>3, <2>2, LoadedGoes
  <1>6. CASE /\ type = "limit" /\ spec = LimitSpec(spec.type, spec.rate, spec.burst, spec.unit, spec.inv)
             /\ spec.type \in {"packets", "bytes"} /\ spec.rate \in Nat /\ spec.burst \in Nat \ {0}
    <2>1. d = ObjForm("limit", comment, LimitSpec(spec.type, spec.rate, spec.burst, spec.unit, spec.inv))
      BY <1>1, <1>6
    <2>2. Loads(fam, d, d) /\ Returns(fam, "text", d) /\ (comment = "none" => Returns(fam, "json", d))
      BY <1>6, <2>1, LimitReturns
    <2> QED
      BY <1>2, <1>3, <2>2, LoadedGoes
  <1>7. CASE type = "ct helper" /\ spec = HelperSpec(spec.helper, spec.l4, spec.l3)
    <2> DEFINE m == ObjForm("ct helper", comment, HelperSpec(spec.helper, spec.l4, OrElse(spec.l3, fam)))
    <2>1. d = ObjForm("ct helper", comment, HelperSpec(spec.helper, spec.l4, spec.l3))
      BY <1>1, <1>7
    <2>2. Loads(fam, d, m)
      BY <2>1, HelperLoads
    <2>3. Returns(fam, "text", m) /\ (comment = "none" => Returns(fam, "json", m))
      BY HelperReturns
    <2> HIDE DEF m
    <2> QED
      BY <1>2, <1>3, <2>2, <2>3, LoadedGoes
  <1>8. CASE /\ type = "ct timeout" /\ spec = TimeoutSpec(spec.l4, spec.l3, spec.policy)
             /\ spec.l4 \in {"tcp", "udp"} /\ SomeTime(spec.l4, spec.policy)
    <2> DEFINE m == ObjForm("ct timeout", comment, TimeoutSpec(spec.l4, OrElse(spec.l3, fam), TimesOf(spec.l4, spec.policy)))
    <2>1. d = ObjForm("ct timeout", comment, TimeoutSpec(spec.l4, spec.l3, spec.policy))
      BY <1>1, <1>8
    <2>2. how = "text"
      <3>1. "ct timeout" \notin {"counter", "quota", "limit", "ct helper", "secmark"}
        OBVIOUS
      <3> QED
        BY <1>2, <1>3, <1>8, <3>1
    <2>3. CASE DOMAIN spec.policy \subseteq StateNames(spec.l4)
      <3>1. Loads(fam, d, m)
        BY <1>8, <2>1, <2>3, TimeoutLoads
      <3>2. Returns(fam, "text", m)
        <4>1. \E i \in DOMAIN TimeoutProtocol[spec.l4] : TimesOf(spec.l4, spec.policy)[i] # TimeoutProtocol[spec.l4][i].dflt
          BY <1>8, <2>3 DEF SomeTime
        <4> QED
          BY <1>8, <4>1, TimeoutReturns
      <3> HIDE DEF m
      <3> QED
        BY <2>2, <3>1, <3>2, LoadedGoes
    <2>4. CASE ~(DOMAIN spec.policy \subseteq StateNames(spec.l4))
      <3>1. EvaluateObj(ObjForm("ct timeout", comment, TimeoutSpec(spec.l4, spec.l3, spec.policy))) = Refused
        BY <1>8, <2>4, TimeoutRefused
      <3> QED
        BY <2>1, <3>1, RefusedIs, RefusedGoes
    <2> QED
      BY <2>3, <2>4
  <1>9. CASE /\ type = "ct expectation" /\ spec = ExpectSpec(spec.l4, spec.l3, spec.dport, spec.timeout, spec.size)
             /\ spec.timeout \in Nat
    <2> DEFINE m == ObjForm("ct expectation", comment, ExpectSpec(spec.l4, OrElse(spec.l3, fam), spec.dport, spec.timeout, spec.size))
    <2>1. d = ObjForm("ct expectation", comment, ExpectSpec(spec.l4, spec.l3, spec.dport, spec.timeout, spec.size))
      BY <1>1, <1>9
    <2>2. how = "text"
      <3>1. "ct expectation" \notin {"counter", "quota", "limit", "ct helper", "secmark"}
        OBVIOUS
      <3> QED
        BY <1>2, <1>3, <1>9, <3>1
    <2>3. CASE ExpectFits(spec.l4, spec.dport, spec.timeout, spec.size)
      <3>1. Loads(fam, d, m)
        BY <2>1, <2>3, ExpectLoads
      <3>2. Returns(fam, "text", m)
        BY <1>9, <2>3, ExpectReturns
      <3> HIDE DEF m
      <3> QED
        BY <2>2, <3>1, <3>2, LoadedGoes
    <2>4. CASE ~ExpectFits(spec.l4, spec.dport, spec.timeout, spec.size)
      <3>1. EvaluateObj(d) = Refused
        BY <2>1, <2>4, ExpectLoads
      <3> QED
        BY <3>1, RefusedIs, RefusedGoes
    <2> QED
      BY <2>3, <2>4
  <1>10. SpecGiven(type, spec)
    BY <1>1 DEF ObjectGiven, spec
  <1> QED
    BY <1>4, <1>5, <1>6, <1>7, <1>8, <1>9, <1>10 DEF SpecGiven

-----------------------------------------------------------------------------
(* Sums, bits and bytes.                                                     *)

(* Sums of numbers.                                                          *)
LEMMA TotalIs ==
  ASSUME NEW ns \in Seq(Nat)
  PROVE  \E g \in [0 .. Len(ns) -> Nat] : /\ g[0] = 0 /\ \A i \in 1 .. Len(ns) : g[i] = g[i - 1] + ns[i]
                                          /\ Total(ns) = g[Len(ns)]
  <1> DEFINE n == Len(ns)
             F == [i \in 1 .. n |-> [x \in Nat |-> x + ns[i]]]
  <1>1. n \in Nat /\ \A i \in 1 .. n : ns[i] \in Nat
    OBVIOUS
  <1>2. F \in [1 .. n -> [Nat -> Nat]]
    <2> HIDE DEF n
    <2>1. ASSUME NEW i \in 1 .. n PROVE [x \in Nat |-> x + ns[i]] \in [Nat -> Nat]
      BY <1>1
    <2> QED
      BY <2>1
  <1> HIDE DEF n
  <1>3. PICK g \in [0 .. n -> Nat] : Steps(g, n, 0, F)
    <2> HIDE DEF F
    <2> QED
      BY <1>1, <1>2, Recursion
  <1>4. g = [i \in 0 .. n |-> IF i = 0 THEN 0 ELSE g[i - 1] + ns[i]]
    <2>1. \A i \in 0 .. n : i # 0 => F[i][g[i - 1]] = g[i - 1] + ns[i]
      <3> SUFFICES ASSUME NEW i \in 0 .. n, i # 0 PROVE F[i][g[i - 1]] = g[i - 1] + ns[i]
        OBVIOUS
      <3>1. i \in 1 .. n /\ i - 1 \in 0 .. n
        BY <1>1
      <3> QED
        BY <3>1
    <2>2. g = [i \in 0 .. n |-> IF i = 0 THEN 0 ELSE F[i][g[i - 1]]]
      BY <1>3 DEF Steps
    <2> HIDE DEF F
    <2> QED
      BY <2>1, <2>2
  <1> DEFINE Sums(s) == s = [i \in 0 .. n |-> IF i = 0 THEN 0 ELSE s[i - 1] + ns[i]]
             h == CHOOSE s : Sums(s)
  <1>5. Total(ns) = h[n]
    BY DEF Total, n
  <1>6. Sums(h)
    BY <1>4
  <1>7. \A i \in 0 .. n : h[i] = g[i]
    <2> DEFINE S == {i \in 0 .. n : h[i] = g[i]}
    <2>1. 0 \in S
      <3>1. 0 \in 0 .. n
        BY <1>1
      <3> HIDE DEF h
      <3>2. h[0] = 0
        BY <1>6, <3>1
      <3>3. g[0] = 0
        BY <1>4, <3>1
      <3> QED
        BY <3>1, <3>2, <3>3
    <2>2. ASSUME NEW k \in 0 .. n - 1, k \in S PROVE k + 1 \in S
      <3>1. k + 1 \in 0 .. n /\ k + 1 # 0 /\ (k + 1) - 1 = k
        BY <1>1
      <3> HIDE DEF h
      <3>2. h[k + 1] = h[k] + ns[k + 1]
        BY <1>6, <3>1
      <3>3. g[k + 1] = g[k] + ns[k + 1]
        BY <1>4, <3>1
      <3> QED
        BY <2>2, <3>1, <3>2, <3>3
    <2> HIDE DEF S
    <2>3. 0 .. n \subseteq S
      BY <1>1, <2>1, <2>2, InductionTo
    <2> QED
      BY <2>3 DEF S
  <1> HIDE DEF h
  <1>8. g[0] = 0 /\ \A i \in 1 .. n : g[i] = g[i - 1] + ns[i]
    <2>1. 0 \in 0 .. n /\ \A i \in 1 .. n : i \in 0 .. n /\ i # 0
      BY <1>1
    <2> QED
      BY <1>4, <2>1
  <1>9. Total(ns) = g[n]
    BY <1>1, <1>5, <1>7
  <1> QED
    BY <1>8, <1>9 DEF n

(* What is counted in bits is the same in bytes.                             *)
LEMMA TotalBytes ==
  ASSUME Byte \in {4, 8}, NEW bits \in Seq(Nat), NEW bytes \in Seq(Nat), Len(bits) = Len(bytes),
         \A i \in 1 .. Len(bits) : bits[i] = Byte * bytes[i]
  PROVE  Total(bits) \in Nat /\ Bytes(Total(bits)) = Total(bytes)
  <1> DEFINE n == Len(bits)
  <1>1. n \in Nat
    OBVIOUS
  <1>2. PICK g \in [0 .. n -> Nat] : g[0] = 0 /\ (\A i \in 1 .. n : g[i] = g[i - 1] + bits[i]) /\ Total(bits) = g[n]
    BY TotalIs
  <1>3. PICK h \in [0 .. n -> Nat] : h[0] = 0 /\ (\A i \in 1 .. n : h[i] = h[i - 1] + bytes[i]) /\ Total(bytes) = h[n]
    BY TotalIs
  <1>4. \A i \in 1 .. n : bytes[i] \in Nat /\ bits[i] = Byte * bytes[i]
    OBVIOUS
  <1> HIDE DEF n
  <1> DEFINE S == {i \in 0 .. n : g[i] = Byte * h[i]}
  <1>5. 0 \in S
    BY <1>1, <1>2, <1>3
  <1>6. ASSUME NEW k \in 0 .. n - 1, k \in S PROVE k + 1 \in S
    <2>1. k + 1 \in 1 .. n /\ k + 1 \in 0 .. n /\ (k + 1) - 1 = k /\ k \in 0 .. n
      BY <1>1
    <2>2. g[k + 1] = g[k] + bits[k + 1] /\ h[k + 1] = h[k] + bytes[k + 1]
      BY <1>2, <1>3, <2>1
    <2>3. g[k] = Byte * h[k] /\ bits[k + 1] = Byte * bytes[k + 1] /\ h[k] \in Nat /\ bytes[k + 1] \in Nat
      BY <1>4, <1>6, <2>1
    <2>4. g[k + 1] = Byte * h[k + 1]
      BY <2>2, <2>3
    <2> QED
      BY <2>1, <2>4
  <1> HIDE DEF S
  <1>7. 0 .. n \subseteq S
    BY <1>1, <1>5, <1>6, InductionTo
  <1>8. n \in 0 .. n /\ g[n] = Byte * h[n] /\ g[n] \in Nat /\ h[n] \in Nat
    BY <1>1, <1>7 DEF S
  <1>9. Bytes(g[n]) = h[n]
    <2> DEFINE a == g[n]
               b == h[n]
    <2>1. a = Byte * b /\ a \in Nat /\ b \in Nat
      BY <1>8
    <2> HIDE DEF a, b
    <2>2. ASSUME Byte = 4 PROVE Bytes(a) = b
      <3>1. (4 * b + 4 - 1) \div 4 = b
        BY <2>1
      <3> QED
        BY <2>1, <2>2, <3>1 DEF Bytes, DivRoundUp
    <2>3. ASSUME Byte = 8 PROVE Bytes(a) = b
      <3>1. (8 * b + 8 - 1) \div 8 = b
        BY <2>1
      <3> QED
        BY <2>1, <2>3, <3>1 DEF Bytes, DivRoundUp
    <2> QED
      BY <2>2, <2>3 DEF a, b
  <1> QED
    BY <1>2, <1>3, <1>8, <1>9

(* Bytes that a number of bits fills, and registers.                         *)
LEMMA BytesAre ==
  ASSUME Byte \in {4, 8}, NEW n \in Nat
  PROVE  /\ Bytes(n) \in Nat /\ (Bytes(n) = 0 <=> n = 0)
         /\ PaddedLen(n) \in Nat /\ RoundUp(Bytes(n), 4) \in Nat /\ PaddedLen(n) = Byte * RoundUp(Bytes(n), 4)
  <1>1. CASE Byte = 4
    <2>1. /\ (n + 3) \div 4 \in Nat /\ ((n + 3) \div 4 = 0 <=> n = 0)
          /\ (n + 15) \div 16 \in Nat /\ (n + 15) \div 16 = ((n + 3) \div 4 + 3) \div 4
      OBVIOUS
    <2>2. Bytes(n) = (n + 3) \div 4 /\ PaddedLen(n) = ((n + 15) \div 16) * 16
      BY <1>1 DEF Bytes, DivRoundUp, PaddedLen, Space, Reg32
    <2>3. RoundUp(Bytes(n), 4) = (((n + 3) \div 4 + 3) \div 4) * 4
      BY <2>1, <2>2 DEF RoundUp, DivRoundUp
    <2> QED
      BY <1>1, <2>1, <2>2, <2>3
  <1>2. CASE Byte = 8
    <2>1. /\ (n + 7) \div 8 \in Nat /\ ((n + 7) \div 8 = 0 <=> n = 0)
          /\ (n + 31) \div 32 \in Nat /\ (n + 31) \div 32 = ((n + 7) \div 8 + 3) \div 4
      OBVIOUS
    <2>2. Bytes(n) = (n + 7) \div 8 /\ PaddedLen(n) = ((n + 31) \div 32) * 32
      BY <1>2 DEF Bytes, DivRoundUp, PaddedLen, Space, Reg32
    <2>3. RoundUp(Bytes(n), 4) = (((n + 7) \div 8 + 3) \div 4) * 4
      BY <2>1, <2>2 DEF RoundUp, DivRoundUp
    <2> QED
      BY <1>2, <2>1, <2>2, <2>3
  <1> QED
    BY <1>1, <1>2

(* A concatenation of known parts has their types and their bytes.           *)
AllSized(e) == \A p \in Range(e.es) : Types[p.dt].size # 0
PartTypes(e) == [i \in DOMAIN e.es |-> e.es[i].dt]
(* The fields of a concatenation.                                            *)
LEMMA ConcatFields ==
  ASSUME NEW es
  PROVE  ConcatOf(es).t = "concat" /\ ConcatOf(es).es = es /\ ConcatOf(es).bo = "none"
  BY DEF ConcatOf, Concat

(* A concatenation whose parts have sizes has a type that stands for theirs  *)
(* (concat_type_alloc()).                                                    *)
LEMMA ConcatTypes ==
  ASSUME NEW e, ConcatGiven(e), AllSized(e)
  PROVE  ConcatOf(e.es).dt \in DOMAIN Concats /\ Concats[ConcatOf(e.es).dt] = PartTypes(e)
  <1>1. ConcatOf(e.es).dt = CHOOSE n \in DOMAIN Concats : Concats[n] = PartTypes(e)
    BY DEF ConcatOf, Concat, PartTypes
  <1>2. \E n \in DOMAIN Concats : Concats[n] = PartTypes(e)
    BY DEF ConcatGiven, AllSized, PartTypes
  <1> QED
    BY <1>1, <1>2

(* A concatenation has at least two parts.                                   *)
LEMMA ConcatParts ==
  ASSUME NEW e, ConcatGiven(e)
  PROVE  /\ Len(e.es) \in Nat /\ Len(e.es) > 1 /\ DOMAIN e.es = 1 .. Len(e.es) /\ e.es = [i \in DOMAIN e.es |-> e.es[i]]
         /\ \A i \in DOMAIN e.es : e.es[i] \in Range(e.es) /\ PartGiven(e.es[i])
  BY DEF ConcatGiven, Range

(* A concatenation is as long as its parts, each in registers of its own.    *)
LEMMA ConcatBytes ==
  ASSUME TypesFit, NEW e, ConcatGiven(e), AllSized(e)
  PROVE  Bytes(ConcatOf(e.es).len) = Total([i \in DOMAIN e.es |-> RoundUp(Bytes(e.es[i].len), 4)])
         /\ [i \in DOMAIN e.es |-> Bytes(e.es[i].len)] = [i \in DOMAIN e.es |-> Bytes(Types[e.es[i].dt].size)]
  <1> DEFINE bits == [i \in DOMAIN e.es |-> PaddedLen(Types[e.es[i].dt].size)]
             bytes == [i \in DOMAIN e.es |-> RoundUp(Bytes(e.es[i].len), 4)]
             n == Len(e.es)
  <1>1. n \in Nat /\ DOMAIN e.es = 1 .. n /\ Byte \in {4, 8}
    BY ConcatParts DEF TypesFit
  <1>2. ASSUME NEW i \in 1 .. n
        PROVE  /\ e.es[i].len \in Nat /\ Types[e.es[i].dt].size \in Nat
               /\ Bytes(e.es[i].len) = Bytes(Types[e.es[i].dt].size)
    <2>1. e.es[i] \in Range(e.es) /\ PartGiven(e.es[i])
      BY <1>1, ConcatParts
    <2>2. Types[e.es[i].dt].size # 0
      BY <2>1 DEF AllSized
    <2>3. Bytes(e.es[i].len) = Bytes(Types[e.es[i].dt].size)
      BY <2>1, <2>2 DEF ConcatGiven
    <2> QED
      BY <2>1, <2>3 DEF PartGiven, TypesFit
  <1>3. ASSUME NEW i \in 1 .. n
        PROVE  bits[i] \in Nat /\ bytes[i] \in Nat /\ bits[i] = Byte * bytes[i]
    <2> DEFINE len == e.es[i].len
               size == Types[e.es[i].dt].size
    <2>1. bits[i] = PaddedLen(size) /\ bytes[i] = RoundUp(Bytes(size), 4) /\ size \in Nat
      BY <1>1, <1>2
    <2> HIDE DEF bits, bytes, size
    <2> QED
      BY <1>1, <2>1, BytesAre
  <1>4. bits = [i \in 1 .. n |-> bits[i]] /\ bytes = [i \in 1 .. n |-> bytes[i]]
    BY <1>1
  <1>5. ConcatOf(e.es).len = Total(bits)
    BY DEF ConcatOf, Concat
  <1> HIDE DEF bits, bytes
  <1>6. bits \in Seq(Nat) /\ bytes \in Seq(Nat) /\ Len(bits) = n /\ Len(bytes) = n
    <2>1. bits \in [1 .. n -> Nat] /\ bytes \in [1 .. n -> Nat]
      BY <1>3, <1>4
    <2> HIDE DEF n
    <2> QED
      BY <1>1, <2>1
  <1>7. Bytes(Total(bits)) = Total(bytes)
    <2> HIDE DEF n
    <2> QED
      BY <1>1, <1>3, <1>6, TotalBytes
  <1> QED
    BY <1>1, <1>2, <1>5, <1>7 DEF bytes

-----------------------------------------------------------------------------
(* Keys and data of sets.                                                    *)

(* A key or data once it is evaluated, and as it is said in a listing: the   *)
(* expression it is the type of, or the type.                                *)
KnownValue(e) == IF e.t = "concat" THEN ConcatOf(e.es) ELSE e
Said(e, kept) == IF kept THEN KnownValue(e) ELSE TypeExpr(KnownValue(e).dt)
Whole(e) == IF e.t = "concat" THEN AllSized(e) ELSE e.len # 0 \/ e.dt = "verdict"
(* Two that the kernel has the same of.                                      *)
SameValue(y, e) ==
  /\ y.dt = e.dt /\ y.len = e.len /\ y.bo = e.bo

(* What a part of a key can be.                                              *)
LEMMA PartIs ==
  ASSUME NEW e, PartGiven(e)
  PROVE  /\ e.dt \in DOMAIN Types /\ e.len \in Nat /\ e.t \in {"value", "payload", "meta", "ct"}
         /\ e.t = "value" => e = OfType(e.dt)
  BY DEF PartGiven, OfType

(* A type alone is a part of a key.                                          *)
LEMMA TypeIsPart ==
  ASSUME TypesFit, NEW dt \in DOMAIN Types
  PROVE  /\ PartGiven(OfType(dt)) /\ OfType(dt).t = "value" /\ OfType(dt).dt = dt /\ OfType(dt).len = Types[dt].size
         /\ OfType(dt).bo = Types[dt].bo
  BY DEF PartGiven, OfType, TypesFit

(* What is no typeof is said by its type alone.                              *)
LEMMA ConstantIsType ==
  ASSUME NEW e, ValueGiven(e), ~Typeof(e)
  PROVE  AsItsType(e)
  <1>1. CASE e.t = "concat"
    BY <1>1 DEF AsItsType
  <1>2. CASE e.t # "concat"
    <2>1. PartGiven(e) /\ e.t = "value"
      BY <1>2 DEF ValueGiven, Typeof
    <2>2. e = OfType(e.dt)
      BY <2>1, PartIs
    <2>3. e.len = Types[e.dt].size /\ e.bo = Types[e.dt].bo
      BY <2>2 DEF OfType
    <2> QED
      BY <2>3 DEF AsItsType
  <1> QED
    BY <1>1, <1>2

(* What is known is known as itself.                                         *)
LEMMA KnownAgain ==
  ASSUME NEW e, ValueGiven(e)
  PROVE  LET y == KnownValue(e)
         IN  /\ ValueGiven(y) /\ KnownValue(y) = y /\ (y.t = "concat" <=> e.t = "concat")
             /\ (Typeof(y) <=> Typeof(e)) /\ (e.t = "concat" => y.es = e.es) /\ (Whole(y) <=> Whole(e)) /\ (AsItsType(y) <=> AsItsType(e))
  <1>1. CASE e.t = "concat"
    <2> DEFINE y == KnownValue(e)
    <2>1. y = ConcatOf(e.es) /\ y.t = "concat" /\ y.es = e.es
      BY <1>1, ConcatFields DEF KnownValue
    <2> HIDE DEF y
    <2>2. ConcatGiven(y)
      BY <1>1, <2>1 DEF ValueGiven, ConcatGiven
    <2>3. ValueGiven(y) /\ KnownValue(y) = y
      BY <2>1, <2>2 DEF ValueGiven, KnownValue
    <2>4. (Typeof(y) <=> Typeof(e)) /\ (Whole(y) <=> Whole(e)) /\ AsItsType(y) /\ AsItsType(e)
      BY <1>1, <2>1 DEF Typeof, Whole, AllSized, AsItsType
    <2> QED
      BY <1>1, <2>1, <2>3, <2>4 DEF y
  <1>2. CASE e.t # "concat"
    <2>1. KnownValue(e) = e
      BY <1>2 DEF KnownValue
    <2> QED
      BY <1>2, <2>1
  <1> QED
    BY <1>1, <1>2

(* The type of a concatenation is read as the types of its parts.            *)
LEMMA TypeOfConcat ==
  ASSUME TypesFit, NEW e, e.t = "concat", ConcatGiven(e), AllSized(e)
  PROVE  LET y == TypeExpr(ConcatOf(e.es).dt)
         IN  /\ y.t = "concat" /\ y.es = [i \in DOMAIN e.es |-> OfType(e.es[i].dt)] /\ ConcatGiven(y) /\ AllSized(y)
             /\ PartTypes(y) = PartTypes(e) /\ ~Typeof(y)
  <1> DEFINE dt == ConcatOf(e.es).dt
             y == TypeExpr(dt)
             types == PartTypes(e)
             es == [i \in DOMAIN e.es |-> OfType(e.es[i].dt)]
  <1>1. dt \in DOMAIN Concats /\ Concats[dt] = types
    BY ConcatTypes
  <1>2. types = [i \in DOMAIN e.es |-> e.es[i].dt]
    BY DEF PartTypes
  <1> HIDE DEF dt, types
  <1>3. [i \in DOMAIN types |-> OfType(types[i])] = es
    BY <1>2
  <1>4. y = Concat(es)
    BY <1>1, <1>3 DEF TypeExpr
  <1> HIDE DEF y
  <1>5. y.t = "concat" /\ y.es = es
    BY <1>4 DEF Concat
  <1>6. ASSUME NEW i \in DOMAIN e.es
        PROVE  /\ es[i] = OfType(e.es[i].dt) /\ es[i].dt = e.es[i].dt /\ es[i].t = "value" /\ PartGiven(es[i])
               /\ es[i].len = Types[es[i].dt].size /\ Types[es[i].dt].size # 0
    <2>1. e.es[i] \in Range(e.es) /\ PartGiven(e.es[i])
      BY ConcatParts
    <2>2. e.es[i].dt \in DOMAIN Types /\ Types[e.es[i].dt].size # 0
      BY <2>1, PartIs DEF AllSized
    <2>3. es[i] = OfType(e.es[i].dt)
      OBVIOUS
    <2> HIDE DEF es
    <2> QED
      BY <2>2, <2>3, TypeIsPart
  <1>7. DOMAIN es = DOMAIN e.es /\ DOMAIN es = 1 .. Len(e.es) /\ Len(e.es) \in Nat /\ Len(e.es) > 1
    BY ConcatParts
  <1>8. es = [i \in DOMAIN e.es |-> es[i]]
    OBVIOUS
  <1> HIDE DEF es
  <1>9. es \in Seq(Range(es)) /\ Len(es) = Len(e.es)
    <2> DEFINE n == Len(e.es)
               S == Range(es)
    <2>1. \A i \in 1 .. n : es[i] \in S
      BY <1>7 DEF Range
    <2>2. n \in Nat /\ es = [i \in 1 .. n |-> es[i]]
      BY <1>7, <1>8
    <2> HIDE DEF n, S
    <2>3. es \in Seq(S) /\ Len(es) = n
      BY <2>1, <2>2
    <2> QED
      BY <2>3 DEF n, S
  <1>10. \A p \in Range(es) : PartGiven(p) /\ p.t = "value" /\ p.len = Types[p.dt].size /\ Types[p.dt].size # 0
    BY <1>6, <1>7 DEF Range
  <1>11. PartTypes(y) = types
    <2>1. PartTypes(y) = [i \in DOMAIN es |-> es[i].dt]
      BY <1>5 DEF PartTypes
    <2>2. [i \in DOMAIN es |-> es[i].dt] = [i \in DOMAIN e.es |-> e.es[i].dt]
      BY <1>6, <1>7
    <2> QED
      BY <1>2, <2>1, <2>2
  <1>12. ConcatGiven(y)
    <2>1. \E n \in DOMAIN Concats : Concats[n] = [i \in DOMAIN y.es |-> y.es[i].dt]
      BY <1>1, <1>11 DEF PartTypes
    <2> QED
      BY <1>5, <1>7, <1>9, <1>10, <2>1 DEF ConcatGiven
  <1>13. AllSized(y)
    BY <1>5, <1>10 DEF AllSized
  <1>14. ~Typeof(y)
    <2>1. 1 \in DOMAIN es
      BY <1>7
    <2> QED
      BY <1>5, <1>6, <1>7, <2>1 DEF Typeof
  <1> QED
    BY <1>5, <1>11, <1>12, <1>13, <1>14 DEF dt, types, y, es

(* Types are known as what they are the types of.                            *)
LEMMA SameConcat ==
  ASSUME NEW y, NEW e, PartTypes(y) = PartTypes(e)
  PROVE  SameValue(ConcatOf(y.es), ConcatOf(e.es)) /\ DOMAIN y.es = DOMAIN e.es
  <1>1. DOMAIN y.es = DOMAIN e.es /\ \A i \in DOMAIN e.es : y.es[i].dt = e.es[i].dt
    BY DEF PartTypes
  <1>2. [i \in DOMAIN y.es |-> PaddedLen(Types[y.es[i].dt].size)] = [i \in DOMAIN e.es |-> PaddedLen(Types[e.es[i].dt].size)]
    BY <1>1
  <1>3. ConcatOf(y.es).len = ConcatOf(e.es).len
    BY <1>2 DEF ConcatOf, Concat
  <1>4. ConcatOf(y.es).dt = ConcatOf(e.es).dt
    <2>1. ConcatOf(y.es).dt = CHOOSE n \in DOMAIN Concats : Concats[n] = PartTypes(y)
      BY DEF ConcatOf, Concat, PartTypes
    <2>2. ConcatOf(e.es).dt = CHOOSE n \in DOMAIN Concats : Concats[n] = PartTypes(e)
      BY DEF ConcatOf, Concat, PartTypes
    <2> QED
      BY <2>1, <2>2
  <1> QED
    BY <1>1, <1>3, <1>4, ConcatFields DEF SameValue

(* What is said of a key or data, read again.                                *)
LEMMA SaidAgain ==
  ASSUME TypesFit, NEW e, NEW kept \in BOOLEAN, ValueGiven(e), Whole(e), kept \/ AsItsType(e)
  PROVE  LET y == Said(e, kept)
         IN  /\ ValueGiven(y) /\ Whole(y) /\ (y.t = "concat" <=> e.t = "concat") /\ SameValue(KnownValue(y), KnownValue(e))
             /\ (e.t = "concat" => PartTypes(y) = PartTypes(e) /\ \A p \in Range(y.es) : p \in Range(e.es) \/ p.t = "value")
             /\ (Typeof(y) <=> kept /\ Typeof(e)) /\ (AsItsType(e) => AsItsType(y)) /\ (kept => y = KnownValue(e) /\ KnownValue(y) = y)
  <1> DEFINE y == Said(e, kept)
             k == KnownValue(e)
  <1>1. CASE kept
    <2>1. y = k
      BY <1>1 DEF Said
    <2>2. /\ ValueGiven(k) /\ KnownValue(k) = k /\ (k.t = "concat" <=> e.t = "concat")
          /\ (Typeof(k) <=> Typeof(e)) /\ (e.t = "concat" => k.es = e.es) /\ (Whole(k) <=> Whole(e)) /\ (AsItsType(k) <=> AsItsType(e))
      BY KnownAgain
    <2> HIDE DEF y, k
    <2>3. SameValue(KnownValue(y), k)
      BY <2>1, <2>2 DEF SameValue
    <2>4. e.t = "concat" => PartTypes(y) = PartTypes(e) /\ \A p \in Range(y.es) : p \in Range(e.es)
      BY <2>1, <2>2 DEF PartTypes
    <2> QED
      BY <1>1, <2>1, <2>2, <2>3, <2>4 DEF y, k
  <1>2. CASE ~kept /\ e.t = "concat"
    <2>1. ConcatGiven(e) /\ AllSized(e) /\ k = ConcatOf(e.es)
      BY <1>2 DEF ValueGiven, Whole, KnownValue
    <2>2. y = TypeExpr(ConcatOf(e.es).dt)
      BY <1>2, <2>1 DEF Said
    <2> HIDE DEF y, k
    <2>3. /\ y.t = "concat" /\ y.es = [i \in DOMAIN e.es |-> OfType(e.es[i].dt)] /\ ConcatGiven(y) /\ AllSized(y)
          /\ PartTypes(y) = PartTypes(e) /\ ~Typeof(y)
      BY <1>2, <2>1, <2>2, TypeOfConcat
    <2>4. ValueGiven(y) /\ Whole(y) /\ KnownValue(y) = ConcatOf(y.es) /\ AsItsType(y)
      BY <2>3 DEF ValueGiven, Whole, KnownValue, AsItsType
    <2>5. SameValue(KnownValue(y), k)
      BY <2>1, <2>3, <2>4, SameConcat
    <2>6. \A p \in Range(y.es) : p.t = "value"
      <3>1. \A dt : OfType(dt).t = "value"
        BY DEF OfType
      <3>2. \A p \in Range(y.es) : \E i \in DOMAIN e.es : p = OfType(e.es[i].dt)
        BY <2>3 DEF Range
      <3> QED
        BY <3>1, <3>2
    <2> QED
      BY <1>2, <2>3, <2>4, <2>5, <2>6 DEF y, k
  <1>3. CASE ~kept /\ e.t # "concat"
    <2>1. k = e /\ PartGiven(e) /\ e.dt \in DOMAIN Types
      BY <1>3, PartIs DEF KnownValue, ValueGiven
    <2>2. e.dt \notin DOMAIN Concats
      BY <2>1 DEF TypesFit
    <2>3. y = OfType(e.dt)
      BY <1>3, <2>1, <2>2 DEF Said, TypeExpr
    <2>4. e.len = Types[e.dt].size /\ e.bo = Types[e.dt].bo
      BY <1>3 DEF AsItsType
    <2> HIDE DEF y, k
    <2>5. PartGiven(y) /\ y.t = "value" /\ y.dt = e.dt /\ y.len = e.len /\ y.bo = e.bo
      BY <2>1, <2>3, <2>4, TypeIsPart
    <2>6. ValueGiven(y) /\ KnownValue(y) = y /\ ~Typeof(y)
      BY <2>5 DEF ValueGiven, KnownValue, Typeof
    <2>7. Whole(y) /\ AsItsType(y) /\ SameValue(KnownValue(y), k)
      BY <1>3, <2>1, <2>4, <2>5, <2>6 DEF Whole, AsItsType, SameValue
    <2> QED
      BY <1>3, <2>5, <2>6, <2>7 DEF y, k
  <1> QED
    BY <1>1, <1>2, <1>3

(* What the kernel has of a key, or of data that is no verdict.              *)
LEMMA ValueIsKept ==
  ASSUME TypesFit, NEW e, ValueGiven(e), Whole(e), NEW bytes, bytes = Bytes(KnownValue(e).len)
  PROVE  LET k == KnownValue(e)
         IN  /\ ValueKept([dt |-> k.dt, len |-> bytes], k.bo).types = TypesOf(e)
             /\ k.bo = ValueMeans(e).bo
             /\ e.t = "concat" \/ e.dt # "verdict" => bytes = BytesOf(e)
             /\ k.dt = "verdict" <=> e.t # "concat" /\ e.dt = "verdict"
  <1> DEFINE k == KnownValue(e)
             part == [dt |-> k.dt, len |-> bytes]
  <1>1. ValueKept(part, k.bo).types = IF k.dt \in DOMAIN Concats THEN Concats[k.dt] ELSE <<k.dt>>
    BY DEF ValueKept
  <1>2. CASE e.t = "concat"
    <2>1. ConcatGiven(e) /\ AllSized(e) /\ k = ConcatOf(e.es)
      BY <1>2 DEF ValueGiven, Whole, KnownValue
    <2>2. k.dt \in DOMAIN Concats /\ Concats[k.dt] = PartTypes(e) /\ k.bo = "none"
      BY <2>1, ConcatTypes, ConcatFields
    <2>3. TypesOf(e) = PartTypes(e) /\ BytesOf(e) = Total([i \in DOMAIN e.es |-> RoundUp(Bytes(e.es[i].len), 4)])
          /\ ValueMeans(e).bo = "none"
      BY <1>2 DEF TypesOf, PartsOf, PartTypes, BytesOf, ValueMeans
    <2>4. Bytes(k.len) = BytesOf(e)
      BY <2>1, <2>3, ConcatBytes
    <2>5. k.dt # "verdict"
      BY <2>2 DEF TypesFit
    <2> QED
      BY <1>1, <1>2, <2>2, <2>3, <2>4, <2>5
  <1>3. CASE e.t # "concat"
    <2>1. k = e /\ e.dt \in DOMAIN Types /\ e.len \in Nat
      BY <1>3, PartIs DEF KnownValue, ValueGiven
    <2>2. k.dt \notin DOMAIN Concats
      BY <2>1 DEF TypesFit
    <2>3. TypesOf(e) = <<e.dt>> /\ (e.dt # "verdict" => BytesOf(e) = Bytes(e.len)) /\ ValueMeans(e).bo = e.bo
      BY <1>3 DEF TypesOf, PartsOf, BytesOf, ValueMeans
    <2> QED
      BY <1>1, <1>3, <2>1, <2>2, <2>3
  <1> QED
    BY <1>2, <1>3

(* What typeof was given comes back from the user data.                      *)
LEMMA PartBack ==
  ASSUME NEW e, PartGiven(e), e.t # "value", NEW x, x.t = e.t, e.t = "payload" => x.desc = e.desc /\ x.tmpl = e.tmpl,
         e.t # "payload" => x.key = e.key
  PROVE  PartOfUdata(PartUdata(x)) = e /\ PartUdata(x).t \in {"payload", "meta", "ct"}
  <1>1. CASE e.t = "payload"
    <2> DEFINE u == PartUdata(x)
    <2>1. u = [t |-> "payload", desc |-> e.desc, tmpl |-> e.tmpl]
      BY <1>1 DEF PartUdata
    <2> HIDE DEF u
    <2>2. u.t = "payload" /\ u.desc = e.desc /\ u.tmpl = e.tmpl
      BY <2>1
    <2>3. PartOfUdata(u) = PayloadTmpl(e.desc, e.tmpl)
      BY <2>2 DEF PartOfUdata
    <2>4. e = PayloadTmpl(e.desc, e.tmpl)
      BY <1>1 DEF PartGiven, OfType, Meta, Ct
    <2> QED
      BY <2>2, <2>3, <2>4 DEF u
  <1>2. CASE e.t = "meta"
    <2> DEFINE u == PartUdata(x)
    <2>1. u = [t |-> "meta", key |-> e.key]
      BY <1>2 DEF PartUdata
    <2> HIDE DEF u
    <2>2. u.t = "meta" /\ u.key = e.key
      BY <2>1
    <2>3. PartOfUdata(u) = Meta(e.key)
      BY <2>2 DEF PartOfUdata
    <2>4. e = Meta(e.key)
      BY <1>2 DEF PartGiven, OfType, PayloadTmpl, Ct
    <2> QED
      BY <2>2, <2>3, <2>4 DEF u
  <1>3. CASE e.t = "ct"
    <2> DEFINE u == PartUdata(x)
    <2>1. u = [t |-> "ct", key |-> e.key]
      BY <1>3 DEF PartUdata
    <2> HIDE DEF u
    <2>2. u.t = "ct" /\ u.key = e.key
      BY <2>1
    <2>3. PartOfUdata(u) = Ct(e.key)
      BY <2>2 DEF PartOfUdata
    <2>4. e = Ct(e.key)
      BY <1>3 DEF PartGiven, OfType, PayloadTmpl, Meta
    <2> QED
      BY <2>2, <2>3, <2>4 DEF u
  <1> QED
    BY <1>1, <1>2, <1>3, PartIs

(* So it does from the bytes that one part is stored in (set_make_key(),     *)
(* set_key_expression()).                                                    *)
LEMMA UdataOfPart ==
  ASSUME NEW e, PartGiven(e), e.t # "value", NEW x, x.t = e.t, e.t = "payload" => x.desc = e.desc /\ x.tmpl = e.tmpl,
         e.t # "payload" => x.key = e.key
  PROVE  BuildUdata(x).t # "none" /\ ParseUdata(BuildUdata(x)) = e
  <1>1. x.t \in {"payload", "meta", "ct"}
    BY PartIs
  <1>2. BuildUdata(x) = PartUdata(x)
    BY <1>1 DEF BuildUdata, Constant
  <1>3. PartOfUdata(PartUdata(x)) = e /\ PartUdata(x).t \in {"payload", "meta", "ct"}
    BY PartBack
  <1>4. ParseUdata(PartUdata(x)) = PartOfUdata(PartUdata(x))
    BY <1>3 DEF ParseUdata
  <1> QED
    BY <1>2, <1>3, <1>4

(* So does a whole key or data, of one part or of several.                   *)
LEMMA UdataOfValue ==
  ASSUME NEW e, ValueGiven(e), Typeof(e)
  PROVE  BuildUdata(KnownValue(e)).t # "none" /\ ParseUdata(BuildUdata(KnownValue(e))) = KnownValue(e)
  <1>1. CASE e.t # "concat"
    <2>1. PartGiven(e) /\ e.t # "value" /\ KnownValue(e) = e
      BY <1>1 DEF ValueGiven, Typeof, KnownValue
    <2> QED
      BY <2>1, UdataOfPart
  <1>2. CASE e.t = "concat"
    <2> DEFINE k == ConcatOf(e.es)
               es == [i \in DOMAIN e.es |-> PartUdata(e.es[i])]
               u == [t |-> "concat", es |-> es]
    <2>1. ConcatGiven(e) /\ KnownValue(e) = k /\ k.t = "concat" /\ k.es = e.es
      BY <1>2, ConcatFields DEF ValueGiven, KnownValue
    <2>2. \A i \in DOMAIN e.es : e.es[i].t # "value" /\ PartGiven(e.es[i])
      BY <1>2, <2>1, ConcatParts DEF Typeof
    <2>3. ~Constant(k)
      <3> HIDE DEF k
      <3>1. 1 \in DOMAIN e.es /\ e.es[1].t # "value"
        <4>1. Len(e.es) \in Nat /\ Len(e.es) > 1 /\ DOMAIN e.es = 1 .. Len(e.es)
          BY <2>1, ConcatParts
        <4> QED
          BY <2>2, <4>1
      <3> QED
        BY <2>1, <3>1 DEF Constant
    <2>4. BuildUdata(k) = [t |-> "concat", es |-> [i \in DOMAIN k.es |-> PartUdata(k.es[i])]]
      <3> HIDE DEF k
      <3> QED
        BY <2>1, <2>3 DEF BuildUdata
    <2>5. BuildUdata(k) = u
      <3> HIDE DEF k
      <3> QED
        BY <2>1, <2>4
    <2>6. ParseUdata(u) = ConcatOf([i \in DOMAIN u.es |-> PartOfUdata(u.es[i])]) /\ u.t = "concat" /\ u.es = es
      BY DEF ParseUdata
    <2>7. [i \in DOMAIN es |-> PartOfUdata(es[i])] = e.es
      <3>1. \A i \in DOMAIN e.es : PartOfUdata(es[i]) = e.es[i]
        <4> SUFFICES ASSUME NEW i \in DOMAIN e.es PROVE PartOfUdata(es[i]) = e.es[i]
          OBVIOUS
        <4>1. PartOfUdata(PartUdata(e.es[i])) = e.es[i]
          BY <2>2, PartBack
        <4> QED
          BY <4>1
      <3>2. DOMAIN es = DOMAIN e.es /\ e.es = [i \in DOMAIN e.es |-> e.es[i]]
        BY <2>1, ConcatParts
      <3> HIDE DEF es
      <3> QED
        BY <3>1, <3>2
    <2> HIDE DEF u, es
    <2> QED
      BY <2>1, <2>5, <2>6, <2>7
  <1> QED
    BY <1>1, <1>2

(* Of a type alone nothing is stored.                                        *)
LEMMA UdataOfConstant ==
  ASSUME NEW e, ValueGiven(e), ~Typeof(e)
  PROVE  BuildUdata(KnownValue(e)) = None
  <1>1. CASE e.t # "concat"
    <2>1. KnownValue(e) = e /\ e.t = "value"
      BY <1>1 DEF KnownValue, Typeof
    <2> QED
      BY <2>1 DEF BuildUdata, Constant
  <1>2. CASE e.t = "concat"
    <2> DEFINE k == ConcatOf(e.es)
    <2>1. ConcatGiven(e) /\ KnownValue(e) = k /\ k.t = "concat" /\ k.es = e.es
      BY <1>2, ConcatFields DEF ValueGiven, KnownValue
    <2> HIDE DEF k
    <2>2. \A i \in DOMAIN e.es : e.es[i].t = "value"
      BY <1>2, <2>1, ConcatParts DEF Typeof, ConcatGiven
    <2>3. Constant(k)
      BY <2>1, <2>2 DEF Constant
    <2> QED
      BY <2>1, <2>3 DEF BuildUdata
  <1> QED
    BY <1>1, <1>2

-----------------------------------------------------------------------------
(* Sets: what is evaluated and sent.                                         *)

(* A set once it is evaluated.                                               *)
KnownData(s) ==
  IF s.map = "no" THEN None ELSE IF s.map = "obj" THEN ObjectData
  ELSE IF s.data.t = "concat" THEN ConcatOf(s.data.es) ELSE [s.data EXCEPT !.len = IF s.dinterval THEN 2 * @ ELSE @]
Ranges(s) == "interval" \in s.flags /\ s.key.t = "concat"
Implied(s) ==
  (IF Ranges(s) THEN {"concat"} ELSE {}) \cup (IF s.timeout # 0 THEN {"timeout"} ELSE {}) \cup (IF Len(s.stmts) > 1 THEN {"expr"} ELSE {})
FieldsOf(s) == IF Ranges(s) THEN FieldLens(KnownValue(s.key)) ELSE <<>>
KeyContext(s) == IF s.key.t = "concat" THEN KnownValue(s.key).dt ELSE "none"
Fine(s) ==
  /\ s.merge => "interval" \in s.flags
  /\ EvalKey(s).err = "none"
  /\ EvalData(KeyContext(s), s).err = "none"
KnownSet(s) ==
  [s EXCEPT !.key = KnownValue(s.key), !.data = KnownData(s), !.flags = @ \cup Implied(s)] ++ [fields |-> FieldsOf(s)]

(* The key of a set is refused or known.                                     *)
LEMMA KeyOutcome ==
  ASSUME NEW s, ValueGiven(s.key)
  PROVE  EvalKey(s) = Refused \/ EvalKey(s) = Done(KnownValue(s.key))
  <1>1. CASE s.key.t = "concat"
    <2>1. EvalKey(s) = EvalConcat("none", s.key)
      BY <1>1 DEF EvalKey
    <2>2. EvalConcat("none", s.key) = Refused \/ EvalConcat("none", s.key) = Done(ConcatOf(s.key.es))
      BY DEF EvalConcat
    <2> QED
      BY <1>1, <2>1, <2>2 DEF KnownValue
  <1>2. CASE s.key.t # "concat"
    <2>1. EvalKey(s) = Refused \/ EvalKey(s) = Done(s.key)
      BY <1>2 DEF EvalKey
    <2> QED
      BY <1>2, <2>1 DEF KnownValue
  <1> QED
    BY <1>1, <1>2

(* So is its data, and an interval of data is twice as long.                 *)
LEMMA DataOutcome ==
  ASSUME NEW s, s.map \in {"no", "data", "obj"}, NEW context
  PROVE  EvalData(context, s) = Refused \/ EvalData(context, s) = Done(KnownData(s))
  <1>1. CASE s.map = "no"
    BY <1>1 DEF EvalData, KnownData
  <1>2. CASE s.map = "obj"
    BY <1>2 DEF EvalData, KnownData
  <1>3. CASE s.map = "data" /\ s.data.t = "concat"
    <2>1. EvalData(context, s) = EvalConcat(context, s.data)
      BY <1>3 DEF EvalData
    <2>2. EvalConcat(context, s.data) = Refused \/ EvalConcat(context, s.data) = Done(ConcatOf(s.data.es))
      BY DEF EvalConcat
    <2> QED
      BY <1>3, <2>1, <2>2 DEF KnownData
  <1>4. CASE s.map = "data" /\ s.data.t # "concat"
    <2>1. EvalData(context, s) = Refused \/ EvalData(context, s) = Done([s.data EXCEPT !.len = IF s.dinterval THEN 2 * @ ELSE @])
      BY <1>4 DEF EvalData
    <2> QED
      BY <1>4, <2>1 DEF KnownData
  <1> QED
    BY <1>1, <1>2, <1>3, <1>4

(* A set is refused, or known with the flags that its concatenation of       *)
(* intervals, its timeout and its statements imply (set_evaluate()).         *)
LEMMA SetEvaluated ==
  ASSUME NEW s, ValueGiven(s.key), s.map \in {"no", "data", "obj"}
  PROVE  EvaluateSet(s) = IF Fine(s) THEN Done(KnownSet(s)) ELSE Refused
  <1> DEFINE key == EvalKey(s)
             context == IF s.key.t = "concat" THEN key.stmts.dt ELSE "none"
             data == EvalData(context, s)
             bad == s.merge /\ "interval" \notin s.flags
             known == [s EXCEPT !.key = key.stmts, !.data = data.stmts, !.flags = @ \cup Implied(s)]
                      ++ [fields |-> IF Ranges(s) THEN FieldLens(key.stmts) ELSE <<>>]
  <1>1. s.key.t # "none"
    BY PartIs DEF ValueGiven
  <1>2. EvaluateSet(s) = IF bad THEN Refused ELSE IF key.err # "none" THEN key ELSE IF data.err # "none" THEN data ELSE Done(known)
    BY <1>1 DEF EvaluateSet, Implied, Ranges
  <1>3. key = Refused \/ key = Done(KnownValue(s.key))
    BY KeyOutcome
  <1>4. data = Refused \/ data = Done(KnownData(s))
    <2> HIDE DEF context
    <2> QED
      BY DataOutcome
  <1>5. CASE key = Refused
    <2>1. key.err # "none" /\ ~Fine(s)
      BY <1>5, Fields DEF Fine
    <2> HIDE DEF key, data, known, bad
    <2> QED
      BY <1>2, <1>5, <2>1
  <1>6. CASE key = Done(KnownValue(s.key))
    <2>1. key.err = "none" /\ key.stmts = KnownValue(s.key)
      BY <1>6, Fields
    <2>2. context = KeyContext(s)
      <3> HIDE DEF key
      <3> QED
        BY <2>1 DEF KeyContext
    <2>3. Fine(s) <=> ~bad /\ data.err = "none"
      <3> HIDE DEF context
      <3> QED
        BY <2>1, <2>2 DEF Fine
    <2>4. ASSUME data = Done(KnownData(s)) PROVE known = KnownSet(s) /\ data.err = "none"
      <3>1. data.stmts = KnownData(s) /\ data.err = "none"
        BY <2>4, Fields
      <3> HIDE DEF key, data
      <3> QED
        BY <2>1, <3>1 DEF KnownSet, FieldsOf
    <2>5. ASSUME data = Refused PROVE data.err # "none"
      BY <2>5, Fields
    <2> HIDE DEF key, data, known, bad
    <2> QED
      BY <1>2, <1>4, <2>1, <2>3, <2>4, <2>5
  <1> HIDE DEF key
  <1> QED
    BY <1>3, <1>5, <1>6

(* The message a set is loaded as.                                           *)
SetMsg(s) ==
  LET key == KnownValue(s.key)
      data == KnownData(s)
  IN  [t |-> "set", flags |-> s.flags \cup Implied(s), map |-> s.map, obj |-> s.obj, fields |-> FieldsOf(s),
       key |-> [dt |-> key.dt, len |-> Bytes(key.len)],
       data |-> IF s.map # "data" THEN [dt |-> "string", len |-> 0]
                ELSE [dt |-> data.dt, len |-> IF data.dt = "verdict" THEN VerdictBytes ELSE Bytes(data.len)],
       timeout |-> s.timeout, gc |-> s.gc, stmts |-> s.stmts, policy |-> s.policy, size |-> s.size,
       udata |-> [keybo |-> key.bo, databo |-> IF s.map = "data" THEN data.bo ELSE "none", merge |-> s.merge,
                  keyof |-> BuildUdata(key), dataof |-> BuildUdata(data), dinterval |-> s.dinterval, comment |-> s.comment]]

(* The fields of a set that is known.                                        *)
LEMMA KnownFields ==
  ASSUME NEW s, SetGiven(s), NEW fam
  PROVE  LET full == KnownSet(s) ++ [family |-> fam]
         IN  /\ full.t = s.t /\ full.key = KnownValue(s.key) /\ full.map = s.map /\ full.data = KnownData(s)
             /\ full.dinterval = s.dinterval /\ full.obj = s.obj /\ full.flags = s.flags \cup Implied(s)
             /\ full.timeout = s.timeout /\ full.gc = s.gc /\ full.size = s.size /\ full.policy = s.policy
             /\ full.merge = s.merge /\ full.stmts = s.stmts /\ full.comment = s.comment /\ full.fields = FieldsOf(s)
  <1> DEFINE known == [s EXCEPT !.key = KnownValue(s.key), !.data = KnownData(s), !.flags = @ \cup Implied(s)]
             more == known ++ [fields |-> FieldsOf(s)]
             full == more ++ [family |-> fam]
  <1>1. DOMAIN s = SetFields
    BY DEF SetGiven
  <1>2. /\ DOMAIN known = SetFields
        /\ known.key = KnownValue(s.key) /\ known.data = KnownData(s) /\ known.flags = s.flags \cup Implied(s)
        /\ \A f \in SetFields \ {"key", "data", "flags"} : known[f] = s[f]
    BY <1>1 DEF SetFields
  <1> HIDE DEF known
  <1>3. /\ DOMAIN more = SetFields \cup {"fields"} /\ more.fields = FieldsOf(s)
        /\ \A f \in SetFields : more[f] = known[f]
    BY <1>2 DEF ++, SetFields
  <1> HIDE DEF more
  <1>4. full.fields = FieldsOf(s) /\ \A f \in SetFields : full[f] = known[f]
    BY <1>3 DEF ++
  <1> HIDE DEF full
  <1>5. full.fields = FieldsOf(s) /\ full.key = KnownValue(s.key) /\ full.data = KnownData(s) /\ full.flags = s.flags \cup Implied(s)
        /\ \A f \in SetFields \ {"key", "data", "flags"} : full[f] = s[f]
    BY <1>2, <1>4 DEF SetFields
  <1>6. {"t", "map", "dinterval", "obj", "timeout", "gc", "size", "policy", "merge", "stmts", "comment"}
          \subseteq SetFields \ {"key", "data", "flags"}
    BY DEF SetFields
  <1>7. \A f \in {"t", "map", "dinterval", "obj", "timeout", "gc", "size", "policy", "merge", "stmts", "comment"} : full[f] = s[f]
    BY <1>5, <1>6
  <1> QED
    BY <1>5, <1>7 DEF full, more, known, KnownSet

(* Evaluation implies no other flags.                                        *)
LEMMA ImpliedFlags ==
  ASSUME NEW s
  PROVE  "constant" \notin Implied(s) /\ "interval" \notin Implied(s) /\ "dynamic" \notin Implied(s)
  BY DEF Implied

(* The message of a set has the flags, sizes and types of what is known, and *)
(* user data for what the kernel has no attribute for (mnl_nft_set_add()).   *)
LEMMA SetSent ==
  ASSUME NEW s, SetGiven(s), NEW fam
  PROVE  KeptSet(SetMessage(KnownSet(s) ++ [family |-> fam])) = SetMsg(s)
  <1> DEFINE full == KnownSet(s) ++ [family |-> fam]
             key == KnownValue(s.key)
             data == KnownData(s)
             m == SetMessage(full)
             udata == [keybo |-> key.bo, databo |-> IF s.map = "data" THEN data.bo ELSE "none", merge |-> s.merge,
                       keyof |-> BuildUdata(key), dataof |-> BuildUdata(data), dinterval |-> s.dinterval, comment |-> s.comment]
             Form(part) ==
               [t |-> "set", flags |-> s.flags \cup Implied(s), map |-> s.map, obj |-> s.obj, fields |-> FieldsOf(s),
                key |-> [dt |-> key.dt, len |-> Bytes(key.len)], data |-> part,
                timeout |-> s.timeout, gc |-> s.gc, stmts |-> s.stmts, policy |-> s.policy, size |-> s.size, udata |-> udata]
             sent == IF s.map = "data" THEN [dt |-> data.dt, len |-> Bytes(data.len)] ELSE [dt |-> "string", len |-> 0]
  <1>1. /\ full.key = key /\ full.map = s.map /\ full.data = data
        /\ full.dinterval = s.dinterval /\ full.obj = s.obj /\ full.flags = s.flags \cup Implied(s)
        /\ full.timeout = s.timeout /\ full.gc = s.gc /\ full.size = s.size /\ full.policy = s.policy
        /\ full.merge = s.merge /\ full.stmts = s.stmts /\ full.comment = s.comment /\ full.fields = FieldsOf(s)
    <2> HIDE DEF full, key, data
    <2> QED
      BY KnownFields DEF full, key, data
  <1>2. "constant" \in s.flags \cup Implied(s) => s.policy = "performance" /\ s.size = 0
    BY ImpliedFlags DEF SetGiven
  <1> HIDE DEF full, key, data
  <1>3. m = Form(sent)
    BY <1>1, <1>2 DEF SetMessage
  <1>4. KeptSet(Form(sent)) = IF sent.dt = "verdict" THEN Form([dt |-> "verdict", len |-> VerdictBytes]) ELSE Form(sent)
    <2> HIDE DEF sent, udata
    <2>1. CASE sent.dt # "verdict"
      BY <2>1 DEF KeptSet
    <2>2. CASE sent.dt = "verdict"
      <3> DEFINE f == Form(sent)
      <3>1. f.data = sent
        OBVIOUS
      <3>2. [f EXCEPT !.data.len = VerdictBytes] = [f EXCEPT !.data = [sent EXCEPT !.len = VerdictBytes]]
        BY <3>1
      <3>3. [sent EXCEPT !.len = VerdictBytes] = [dt |-> "verdict", len |-> VerdictBytes]
        BY <2>2 DEF sent
      <3>4. [f EXCEPT !.data = [dt |-> "verdict", len |-> VerdictBytes]] = Form([dt |-> "verdict", len |-> VerdictBytes])
        OBVIOUS
      <3> QED
        BY <2>2, <3>1, <3>2, <3>3, <3>4 DEF KeptSet
    <2> QED
      BY <2>1, <2>2
  <1>5. SetMsg(s) = IF sent.dt = "verdict" THEN Form([dt |-> "verdict", len |-> VerdictBytes]) ELSE Form(sent)
    <2>1. SetMsg(s) = Form(IF s.map # "data" THEN [dt |-> "string", len |-> 0]
                ELSE [dt |-> data.dt, len |-> IF data.dt = "verdict" THEN VerdictBytes ELSE Bytes(data.len)])
      BY DEF SetMsg, key, data
    <2> HIDE DEF Form
    <2> QED
      BY <2>1
  <1> HIDE DEF Form, sent, m
  <1> QED
    BY <1>3, <1>4, <1>5 DEF m, full

(* A key that is accepted has a size and is no verdict.                      *)
LEMMA FineKey ==
  ASSUME TypesFit, NEW s, SetGiven(s), Fine(s)
  PROVE  Whole(s.key) /\ (s.key.t = "concat" \/ s.key.dt # "verdict")
  <1>1. ValueGiven(s.key) /\ EvalKey(s).err = "none"
    BY DEF SetGiven, Fine
  <1>2. CASE s.key.t = "concat"
    <2>1. EvalConcat("none", s.key).err = "none"
      BY <1>1, <1>2 DEF EvalKey
    <2>2. AllSized(s.key)
      BY <2>1, Fields DEF EvalConcat, AllSized
    <2> QED
      BY <1>2, <2>2 DEF Whole
  <1>3. CASE s.key.t # "concat"
    <2>1. s.key.len # 0
      BY <1>1, <1>3, Fields DEF EvalKey
    <2>2. s.key.dt # "verdict"
      <3>1. SUFFICES ASSUME s.key.dt = "verdict" PROVE FALSE
        OBVIOUS
      <3>2. PartGiven(s.key) /\ s.key.t = "value"
        BY <1>1, <1>3, <3>1 DEF ValueGiven, PartGiven
      <3>3. s.key = OfType("verdict")
        BY <3>1, <3>2, PartIs
      <3>4. s.key.len = 0
        BY <3>3 DEF OfType, TypesFit
      <3> QED
        BY <2>1, <3>4
    <2> QED
      BY <1>3, <2>1, <2>2 DEF Whole
  <1> QED
    BY <1>2, <1>3

(* So has data that is accepted, or it is a verdict.                         *)
LEMMA FineData ==
  ASSUME NEW s, SetGiven(s), Fine(s), s.map = "data", s.data # TypeofVerdict
  PROVE  ValueGiven(s.data) /\ Whole(s.data) /\ (s.data.t # "concat" /\ s.dinterval => s.data.len # 0)
  <1>1. DataGiven(s) /\ ValueGiven(s.data) /\ EvalData(KeyContext(s), s).err = "none"
    BY DEF SetGiven, DataGiven, Fine
  <1>2. CASE s.data.t = "concat"
    <2>1. AllSized(s.data)
      BY <1>1, <1>2 DEF DataGiven, AllSized
    <2> QED
      BY <1>1, <1>2, <2>1 DEF Whole
  <1>3. CASE s.data.t # "concat"
    <2>1. s.data.len # 0 \/ s.data.dt = "verdict"
      BY <1>1, <1>3, Fields DEF EvalData
    <2>2. s.dinterval => s.data.dt # "verdict"
      BY <1>1, <1>3 DEF DataGiven
    <2> QED
      BY <1>1, <1>3, <2>1, <2>2 DEF Whole
  <1> QED
    BY <1>2, <1>3

(* What the kernel has of a key is what it means.                            *)
LEMMA KeyDoes ==
  ASSUME TypesFit, NEW e, ValueGiven(e), Whole(e), e.t = "concat" \/ e.dt # "verdict"
  PROVE  ValueKept([dt |-> KnownValue(e).dt, len |-> Bytes(KnownValue(e).len)], KnownValue(e).bo) = ValueMeans(e)
  <1> DEFINE k == KnownValue(e)
             bytes == Bytes(k.len)
             part == [dt |-> k.dt, len |-> bytes]
  <1>1. ValueKept(part, k.bo).types = TypesOf(e) /\ k.bo = ValueMeans(e).bo /\ bytes = BytesOf(e)
    BY ValueIsKept
  <1> HIDE DEF k, bytes
  <1>2. ValueKept(part, k.bo) = [types |-> ValueKept(part, k.bo).types, bytes |-> bytes, bo |-> k.bo]
    BY DEF ValueKept
  <1>3. ValueMeans(e) = [types |-> TypesOf(e), bytes |-> BytesOf(e), bo |-> ValueMeans(e).bo]
    BY DEF ValueMeans
  <1> HIDE DEF part
  <1> QED
    BY <1>1, <1>2, <1>3 DEF k, bytes, part

(* Data of intervals is twice as long.                                       *)
LEMMA DataDoes ==
  ASSUME TypesFit, NEW s, SetGiven(s), Fine(s), s.map = "data", NEW len,
         len = IF KnownData(s).dt = "verdict" THEN VerdictBytes ELSE Bytes(KnownData(s).len)
  PROVE  ValueKept([dt |-> KnownData(s).dt, len |-> len], KnownData(s).bo) = DataMeans(s)
  <1> DEFINE e == s.data
             k == KnownData(s)
             twice == s.dinterval /\ e.t # "concat"
             part == [dt |-> k.dt, len |-> len]
  <1>1. DataGiven(s) /\ s.dinterval \in BOOLEAN
    BY DEF SetGiven
  <1>2. DataMeans(s) = [types |-> TypesOf(e), bytes |-> IF twice THEN 2 * BytesOf(e) ELSE BytesOf(e), bo |-> ValueMeans(e).bo]
    BY DEF DataMeans, ValueMeans
  <1>3. ValueKept(part, k.bo) = [types |-> ValueKept(part, k.bo).types, bytes |-> len, bo |-> k.bo]
    BY DEF ValueKept
  <1>4. /\ ValueKept(part, k.bo).types = TypesOf(e) /\ k.bo = ValueMeans(e).bo
        /\ len = IF twice THEN 2 * BytesOf(e) ELSE BytesOf(e)
    <2>1. CASE e = TypeofVerdict
      <3>1. e.t = "verdict" /\ e.dt = "verdict" /\ e.len = 0 /\ e.bo = "none" /\ ~s.dinterval
        BY <1>1, <2>1 DEF TypeofVerdict, Verdict, DataGiven
      <3>2. k = [e EXCEPT !.len = @]
        BY <3>1 DEF KnownData
      <3>3. k.dt = "verdict" /\ k.bo = "none"
        BY <2>1, <3>1, <3>2 DEF TypeofVerdict, Verdict
      <3>4. k.dt \notin DOMAIN Concats
        BY <3>3 DEF TypesFit
      <3> HIDE DEF k, e
      <3>5. ValueKept(part, k.bo).types = <<"verdict">>
        BY <3>3, <3>4 DEF ValueKept
      <3>6. TypesOf(e) = <<"verdict">> /\ BytesOf(e) = VerdictBytes /\ ValueMeans(e).bo = "none"
        BY <3>1 DEF TypesOf, PartsOf, BytesOf, ValueMeans
      <3> QED
        <4>1. len = VerdictBytes /\ ~twice
          BY <3>1, <3>3 DEF k
        <4> QED
          BY <3>3, <3>5, <3>6, <4>1
    <2>2. CASE e # TypeofVerdict /\ e.t = "concat"
      <3>1. ValueGiven(e) /\ Whole(e)
        BY <2>2, FineData
      <3>2. k = KnownValue(e) /\ ~twice
        BY <2>2 DEF KnownData, KnownValue
      <3>3. /\ ValueKept([dt |-> k.dt, len |-> Bytes(k.len)], k.bo).types = TypesOf(e)
            /\ k.bo = ValueMeans(e).bo /\ Bytes(k.len) = BytesOf(e) /\ k.dt # "verdict"
        <4> HIDE DEF k, e
        <4> QED
          BY <2>2, <3>1, <3>2, ValueIsKept
      <3> HIDE DEF k, e
      <3>4. len = Bytes(k.len)
        BY <3>3 DEF k
      <3> QED
        BY <3>2, <3>3, <3>4
    <2>3. CASE e # TypeofVerdict /\ e.t # "concat"
      <3>1. ValueGiven(e) /\ Whole(e)
        BY <2>3, FineData
      <3>2. PartGiven(e) /\ e.dt \in DOMAIN Types /\ e.len \in Nat /\ e.dt \notin DOMAIN Concats
        BY <2>3, <3>1, PartIs DEF ValueGiven, TypesFit
      <3>3. k = [e EXCEPT !.len = IF s.dinterval THEN 2 * @ ELSE @]
        BY <2>3 DEF KnownData
      <3>4. k.dt = e.dt /\ k.bo = e.bo /\ k.len = IF s.dinterval THEN 2 * e.len ELSE e.len
        <4>1. e = OfType(e.dt) \/ e = PayloadTmpl(e.desc, e.tmpl) \/ e = Meta(e.key) \/ e = Ct(e.key)
          BY <3>2 DEF PartGiven
        <4>2. "len" \in DOMAIN e /\ "dt" \in DOMAIN e /\ "bo" \in DOMAIN e
          BY <4>1 DEF OfType, PayloadTmpl, Meta, Ct
        <4> HIDE DEF e, k
        <4> QED
          BY <3>3, <4>2
      <3>5. s.dinterval => e.dt # "verdict" /\ Bytes(2 * e.len) = 2 * Bytes(e.len)
        BY <1>1, <2>3 DEF DataGiven
      <3> HIDE DEF k, e
      <3>6. ValueKept(part, k.bo).types = <<e.dt>>
        BY <3>2, <3>4 DEF ValueKept
      <3>7. TypesOf(e) = <<e.dt>> /\ (BytesOf(e) = IF e.dt = "verdict" THEN VerdictBytes ELSE Bytes(e.len)) /\ ValueMeans(e).bo = e.bo
        BY <2>3 DEF TypesOf, PartsOf, BytesOf, ValueMeans
      <3>8. len = IF e.dt = "verdict" THEN VerdictBytes ELSE Bytes(k.len)
        BY <3>4 DEF k
      <3>9. CASE s.dinterval
        BY <2>3, <3>4, <3>5, <3>6, <3>7, <3>8, <3>9
      <3>10. CASE ~s.dinterval
        BY <2>3, <3>4, <3>6, <3>7, <3>8, <3>10
      <3> QED
        BY <3>9, <3>10
    <2> QED
      BY <2>1, <2>2, <2>3
  <1> HIDE DEF part, k, e, twice
  <1> QED
    BY <1>2, <1>3, <1>4 DEF part, k, e, twice

(* What is loaded is what is meant.                                          *)
LEMMA FlagsMeant ==
  ASSUME NEW s
  PROVE  LET ranges == "interval" \in s.flags /\ s.key.t = "concat"
         IN  {f \in {"concat", "timeout", "expr"} :
                CASE f = "concat" -> ranges [] f = "timeout" -> s.timeout # 0 [] f = "expr" -> Len(s.stmts) > 1} = Implied(s)
  <1> DEFINE ranges == "interval" \in s.flags /\ s.key.t = "concat"
             P(f) == CASE f = "concat" -> ranges [] f = "timeout" -> s.timeout # 0 [] f = "expr" -> Len(s.stmts) > 1
  <1>1. (P("concat") <=> ranges) /\ (P("timeout") <=> s.timeout # 0) /\ (P("expr") <=> Len(s.stmts) > 1)
    OBVIOUS
  <1> HIDE DEF P
  <1>2. {f \in {"concat", "timeout", "expr"} : P(f)} = Implied(s)
    BY <1>1 DEF Implied, Ranges
  <1> QED
    BY <1>2 DEF P

(* A set does what it means.                                                 *)
LEMMA SetMeant ==
  ASSUME TypesFit, NEW s, SetGiven(s), Fine(s)
  PROVE  SetDoes(SetMsg(s)) = SetMeans(s)
  <1> DEFINE m == SetMsg(s)
             key == KnownValue(s.key)
             data == KnownData(s)
             len == IF data.dt = "verdict" THEN VerdictBytes ELSE Bytes(data.len)
             Sense(k, d, flags, fields) ==
               [t |-> "set", key |-> k, flags |-> flags, fields |-> fields, data |-> d,
                timeout |-> s.timeout, gc |-> s.gc, policy |-> s.policy, size |-> s.size, merge |-> s.merge,
                stmts |-> s.stmts, comment |-> s.comment]
             keydoes == ValueKept(m.key, m.udata.keybo)
             datadoes == CASE m.map = "no" -> None [] m.map = "obj" -> m.obj [] OTHER -> ValueKept(m.data, m.udata.databo)
             fieldsmean == IF Ranges(s) THEN [i \in DOMAIN s.key.es |-> Bytes(s.key.es[i].len)] ELSE <<>>
  <1>1. /\ m.key = [dt |-> key.dt, len |-> Bytes(key.len)] /\ m.map = s.map /\ m.obj = s.obj /\ m.fields = FieldsOf(s)
        /\ m.flags = s.flags \cup Implied(s) /\ m.timeout = s.timeout /\ m.gc = s.gc /\ m.policy = s.policy
        /\ m.size = s.size /\ m.stmts = s.stmts /\ m.udata.merge = s.merge /\ m.udata.comment = s.comment
        /\ m.udata.keybo = key.bo
        /\ (s.map = "data" => m.data = [dt |-> data.dt, len |-> len] /\ m.udata.databo = data.bo)
    BY DEF SetMsg
  <1>2. s.map \in {"no", "data", "obj"} /\ ValueGiven(s.key)
    BY DEF SetGiven
  <1> HIDE DEF m, key, data, len
  <1>3. SetDoes(m) = Sense(keydoes, datadoes, s.flags \cup Implied(s), FieldsOf(s))
    BY <1>1 DEF SetDoes
  <1>4. SetMeans(s) = Sense(ValueMeans(s.key), DataMeans(s), s.flags \cup Implied(s), fieldsmean)
    BY FlagsMeant DEF SetMeans, Ranges
  <1>5. keydoes = ValueMeans(s.key)
    <2>1. Whole(s.key) /\ (s.key.t = "concat" \/ s.key.dt # "verdict")
      BY FineKey
    <2>2. ValueKept([dt |-> key.dt, len |-> Bytes(key.len)], key.bo) = ValueMeans(s.key)
      BY <1>2, <2>1, KeyDoes DEF key
    <2> QED
      BY <1>1, <2>2
  <1>6. datadoes = DataMeans(s)
    <2>1. CASE s.map = "no"
      BY <1>1, <2>1 DEF DataMeans
    <2>2. CASE s.map = "obj"
      BY <1>1, <2>2 DEF DataMeans
    <2>3. CASE s.map = "data"
      <3>1. ValueKept([dt |-> data.dt, len |-> len], data.bo) = DataMeans(s)
        BY <2>3, DataDoes DEF len, data
      <3> QED
        BY <1>1, <2>3, <3>1
    <2> QED
      BY <1>2, <2>1, <2>2, <2>3
  <1>7. FieldsOf(s) = fieldsmean
    <2>1. CASE Ranges(s)
      <3>1. s.key.t = "concat" /\ ConcatGiven(s.key) /\ AllSized(s.key)
        BY <1>2, <2>1, FineKey DEF Ranges, ValueGiven, Whole
      <3>2. [i \in DOMAIN s.key.es |-> Bytes(s.key.es[i].len)] = [i \in DOMAIN s.key.es |-> Bytes(Types[s.key.es[i].dt].size)]
        BY <3>1, ConcatBytes
      <3>3. FieldsOf(s) = [i \in DOMAIN s.key.es |-> Bytes(Types[s.key.es[i].dt].size)]
        <4>1. KnownValue(s.key).es = s.key.es
          BY <3>1, ConcatFields DEF KnownValue
        <4> QED
          BY <2>1, <4>1 DEF FieldsOf, FieldLens
      <3> QED
        BY <2>1, <3>2, <3>3
    <2>2. CASE ~Ranges(s)
      BY <2>2 DEF FieldsOf
    <2> QED
      BY <2>1, <2>2
  <1> HIDE DEF Sense, keydoes, datadoes, fieldsmean
  <1> QED
    BY <1>3, <1>4, <1>5, <1>6, <1>7 DEF m

(* A set that is accepted is loaded.                                         *)
LEMMA SetLoads ==
  ASSUME TypesFit, NEW fam, NEW s, s.t = "set", SetGiven(s), Fine(s)
  PROVE  Loads(fam, s, SetMsg(s))
  <1> DEFINE full == KnownSet(s) ++ [family |-> fam]
  <1>1. EvaluateSet(s) = Done(KnownSet(s))
    BY SetEvaluated DEF SetGiven
  <1>2. DeclEvaluated(fam, s) = Done(full)
    BY <1>1, Fields DEF DeclEvaluated
  <1>3. full.t = "set"
    BY KnownFields
  <1>4. DeclGenerated(full) = Kept(SetMsg(s))
    <2>1. KeptSet(SetMessage(full)) = SetMsg(s)
      BY SetSent
    <2> HIDE DEF full
    <2> QED
      BY <1>3, <2>1 DEF DeclGenerated
  <1>5. DeclMeans(s, fam) = SetMeans(s)
    BY DEF DeclMeans
  <1>6. DeclDoes(SetMsg(s), fam) = SetDoes(SetMsg(s))
    <2>1. SetMsg(s).t = "set"
      BY DEF SetMsg
    <2> QED
      BY <2>1 DEF DeclDoes
  <1> QED
    BY <1>2, <1>4, <1>5, <1>6, SetMeant, Fields DEF Loads

-----------------------------------------------------------------------------
(* Sets: what is listed and read.                                            *)

(* Whether a listing says typeof, and what is read from a listing.           *)
Retained(s) == Typeof(s.key) /\ ~(s.dinterval /\ s.data.t # "concat")
Timed(s) == IF s.timeout # 0 THEN {"timeout"} ELSE {}
Again(s, kept, flags) ==
  [s EXCEPT !.key = Said(s.key, kept), !.data = IF s.map = "data" THEN Said(s.data, kept) ELSE None, !.flags = flags]
CanSay(s, kept, flags) ==
  /\ kept \in BOOLEAN
  /\ kept => Retained(s)
  /\ ~kept => AsItsType(s.key) /\ (s.map = "data" => AsItsType(s.data) /\ s.data # TypeofVerdict)
  /\ flags \subseteq ShownFlags
  /\ flags \cup Timed(s) = s.flags \cup Timed(s)

(* The fields of a set that is read again.                                   *)
LEMMA AgainFields ==
  ASSUME NEW s, SetGiven(s), NEW kept, NEW flags
  PROVE  LET y == Again(s, kept, flags)
         IN  /\ y = [f \in SetFields |-> y[f]] /\ y.key = Said(s.key, kept) /\ y.flags = flags
             /\ y.data = (IF s.map = "data" THEN Said(s.data, kept) ELSE None)
             /\ y.t = s.t /\ y.map = s.map /\ y.dinterval = s.dinterval /\ y.obj = s.obj /\ y.timeout = s.timeout /\ y.gc = s.gc
             /\ y.size = s.size /\ y.policy = s.policy /\ y.merge = s.merge /\ y.stmts = s.stmts /\ y.comment = s.comment
  <1> DEFINE key == Said(s.key, kept)
             data == IF s.map = "data" THEN Said(s.data, kept) ELSE None
             y == [s EXCEPT !.key = key, !.data = data, !.flags = flags]
  <1>1. s = [f \in SetFields |-> s[f]]
    BY DEF SetGiven
  <1> HIDE DEF key, data
  <1>2. /\ y = [f \in SetFields |-> y[f]]
        /\ y.key = key /\ y.data = data /\ y.flags = flags
        /\ \A f \in SetFields \ {"key", "data", "flags"} : y[f] = s[f]
    BY <1>1 DEF SetFields
  <1>3. {"t", "map", "dinterval", "obj", "timeout", "gc", "size", "policy", "merge", "stmts", "comment"}
          \subseteq SetFields \ {"key", "data", "flags"}
    BY DEF SetFields
  <1> HIDE DEF y
  <1>4. \A f \in {"t", "map", "dinterval", "obj", "timeout", "gc", "size", "policy", "merge", "stmts", "comment"} : y[f] = s[f]
    BY <1>2, <1>3
  <1> QED
    BY <1>2, <1>4 DEF y, Again, key, data

(* Concatenations of the same types have as many parts.                      *)
LEMMA SameLength ==
  ASSUME NEW e, NEW y, ConcatGiven(e), ConcatGiven(y), PartTypes(y) = PartTypes(e)
  PROVE  Len(y.es) = Len(e.es)
  <1>1. DOMAIN y.es = DOMAIN e.es
    BY DEF PartTypes
  <1> QED
    BY <1>1, ConcatParts

(* A concatenation whose parts are replaced by their types is accepted as it *)
(* was.                                                                      *)
LEMMA ConcatAgain ==
  ASSUME NEW context, NEW e, NEW y, ConcatGiven(e), ConcatGiven(y), AllSized(y), PartTypes(y) = PartTypes(e),
         \A p \in Range(y.es) : p \in Range(e.es) \/ p.t = "value", EvalConcat(context, e).err = "none"
  PROVE  EvalConcat(context, y).err = "none"
  <1>1. /\ ~\E p \in Range(e.es) : p.t = "ct" /\ p.key \in {"src", "dst"}
        /\ ~(context # "none" /\ Len(e.es) < Len(Concats[context]))
    BY Fields DEF EvalConcat
  <1>2. Len(y.es) = Len(e.es)
    BY SameLength
  <1>3. /\ ~\E p \in Range(y.es) : p.t = "ct" /\ p.key \in {"src", "dst"}
        /\ ~(context = "none" /\ \E p \in Range(y.es) : Types[p.dt].size = 0)
        /\ ~(context # "none" /\ Len(y.es) < Len(Concats[context]))
    BY <1>1, <1>2 DEF AllSized
  <1>4. EvalConcat(context, y) = Done(ConcatOf(y.es))
    BY <1>3 DEF EvalConcat
  <1> QED
    BY <1>4, Fields

(* A key or data, as the lemmas above have it.                               *)
LikeValue(y, e, kept) ==
  /\ ValueGiven(y) /\ Whole(y) /\ (y.t = "concat" <=> e.t = "concat") /\ SameValue(KnownValue(y), KnownValue(e))
  /\ (e.t = "concat" => PartTypes(y) = PartTypes(e) /\ \A p \in Range(y.es) : p \in Range(e.es) \/ p.t = "value")
  /\ (Typeof(y) <=> kept /\ Typeof(e)) /\ (AsItsType(e) => AsItsType(y)) /\ (kept => y = KnownValue(e) /\ KnownValue(y) = y)

(* The key that is read is like the key that was given.                      *)
LEMMA KeyLike ==
  ASSUME TypesFit, NEW s, SetGiven(s), Fine(s), NEW kept, NEW flags, CanSay(s, kept, flags)
  PROVE  LikeValue(Said(s.key, kept), s.key, kept)
  <1>1. ValueGiven(s.key) /\ Whole(s.key) /\ kept \in BOOLEAN /\ (kept \/ AsItsType(s.key))
    BY FineKey DEF SetGiven, CanSay
  <1> QED
    BY <1>1, SaidAgain DEF LikeValue

(* So is the data, and a verdict is said with typeof only.                   *)
LEMMA DataLike ==
  ASSUME TypesFit, NEW s, SetGiven(s), Fine(s), NEW kept, NEW flags, CanSay(s, kept, flags), s.map = "data"
  PROVE  \/ s.data = TypeofVerdict /\ Said(s.data, kept) = s.data /\ kept
         \/ s.data # TypeofVerdict /\ LikeValue(Said(s.data, kept), s.data, kept) /\ ValueGiven(s.data) /\ Whole(s.data)
  <1>1. CASE s.data = TypeofVerdict
    <2>1. kept
      BY <1>1 DEF CanSay
    <2>2. s.data.t # "concat"
      BY <1>1 DEF TypeofVerdict, Verdict
    <2>3. Said(s.data, kept) = s.data
      BY <2>1, <2>2 DEF Said, KnownValue
    <2> QED
      BY <1>1, <2>1, <2>3
  <1>2. CASE s.data # TypeofVerdict
    <2>1. ValueGiven(s.data) /\ Whole(s.data) /\ kept \in BOOLEAN /\ (kept \/ AsItsType(s.data))
      BY <1>2, FineData DEF CanSay
    <2>2. LikeValue(Said(s.data, kept), s.data, kept)
      BY <2>1, SaidAgain DEF LikeValue
    <2> QED
      BY <1>2, <2>1, <2>2
  <1> QED
    BY <1>1, <1>2

(* The flags that are listed tell what the flags of the set told.            *)
LEMMA FlagsAgain ==
  ASSUME NEW s, SetGiven(s), NEW kept, NEW flags, CanSay(s, kept, flags)
  PROVE  /\ "interval" \in flags <=> "interval" \in s.flags
         /\ "constant" \in flags <=> "constant" \in s.flags
         /\ s.timeout # 0 \/ ("timeout" \in flags <=> "timeout" \in s.flags)
  BY DEF CanSay, Timed

(* The key of a set that is read again is accepted, has the same type, bytes *)
(* and fields, and implies the same flags.                                   *)
LEMMA KeyAgain ==
  ASSUME TypesFit, NEW s, SetGiven(s), Fine(s), NEW kept, NEW flags, CanSay(s, kept, flags), NEW y, y = Again(s, kept, flags)
  PROVE  /\ ValueGiven(y.key) /\ (Typeof(y.key) <=> kept) /\ (y.key.t = "concat" <=> s.key.t = "concat")
         /\ SameValue(KnownValue(y.key), KnownValue(s.key)) /\ (AsItsType(s.key) => AsItsType(y.key))
         /\ (kept => y.key = KnownValue(s.key) /\ KnownValue(y.key) = y.key)
         /\ (s.key.t = "concat" => Len(y.key.es) = Len(s.key.es))
         /\ EvalKey(y).err = "none" /\ KeyContext(y) = KeyContext(s) /\ FieldsOf(y) = FieldsOf(s)
         /\ y.flags \cup Implied(y) = s.flags \cup Implied(s) /\ (y.merge => "interval" \in y.flags)
  <1> DEFINE e == s.key
             k == y.key
  <1>1. /\ k = Said(e, kept) /\ y.flags = flags /\ y.timeout = s.timeout /\ y.merge = s.merge /\ y.stmts = s.stmts
    BY AgainFields
  <1>2. LikeValue(k, e, kept)
    BY <1>1, KeyLike
  <1>3. ValueGiven(e) /\ EvalKey(s).err = "none" /\ (s.merge => "interval" \in s.flags)
    BY DEF SetGiven, Fine
  <1>4. kept => Typeof(e)
    BY DEF CanSay, Retained
  <1>5. /\ ValueGiven(k) /\ Whole(k) /\ (k.t = "concat" <=> e.t = "concat") /\ SameValue(KnownValue(k), KnownValue(e))
        /\ (e.t = "concat" => PartTypes(k) = PartTypes(e) /\ \A p \in Range(k.es) : p \in Range(e.es) \/ p.t = "value")
        /\ (Typeof(k) <=> kept) /\ (AsItsType(e) => AsItsType(k)) /\ (kept => k = KnownValue(e) /\ KnownValue(k) = k)
    BY <1>2, <1>4 DEF LikeValue
  <1>6. KeyContext(y) = KeyContext(s)
    BY <1>5 DEF KeyContext, SameValue
  <1>7. Ranges(y) <=> Ranges(s)
    <2>1. "interval" \in flags <=> "interval" \in s.flags
      BY FlagsAgain
    <2> QED
      BY <1>1, <1>5, <2>1 DEF Ranges
  <1>8. y.flags \cup Implied(y) = s.flags \cup Implied(s)
    <2>1. Implied(y) = Implied(s)
      BY <1>1, <1>7 DEF Implied
    <2>2. Timed(s) \subseteq Implied(s)
      BY DEF Timed, Implied
    <2>3. flags \cup Timed(s) = s.flags \cup Timed(s)
      BY DEF CanSay
    <2> QED
      BY <1>1, <2>1, <2>2, <2>3
  <1>9. y.merge => "interval" \in y.flags
    BY <1>1, <1>3, FlagsAgain
  <1>10. CASE e.t = "concat"
    <2>1. ConcatGiven(e) /\ ConcatGiven(k) /\ AllSized(k) /\ k.t = "concat"
      BY <1>3, <1>5, <1>10 DEF ValueGiven, Whole
    <2>2. EvalKey(y) = EvalConcat("none", k) /\ EvalKey(s) = EvalConcat("none", e)
      BY <1>10, <2>1 DEF EvalKey
    <2>3. EvalKey(y).err = "none"
      BY <1>3, <1>5, <1>10, <2>1, <2>2, ConcatAgain
    <2>4. FieldsOf(y) = FieldsOf(s)
      <3>1. KnownValue(k).es = k.es /\ KnownValue(e).es = e.es
        BY <1>10, <2>1, ConcatFields DEF KnownValue
      <3>2. DOMAIN k.es = DOMAIN e.es /\ \A i \in DOMAIN e.es : k.es[i].dt = e.es[i].dt
        BY <1>5, <1>10 DEF PartTypes
      <3>3. FieldLens(KnownValue(k)) = FieldLens(KnownValue(e))
        BY <3>1, <3>2 DEF FieldLens
      <3> QED
        BY <1>7, <3>3 DEF FieldsOf
    <2>5. Len(k.es) = Len(e.es)
      BY <1>5, <1>10, <2>1, SameLength
    <2> QED
      BY <1>5, <1>6, <1>8, <1>9, <2>3, <2>4, <2>5
  <1>11. CASE e.t # "concat"
    <2>1. KnownValue(k) = k /\ KnownValue(e) = e /\ k.t # "concat"
      BY <1>5, <1>11 DEF KnownValue
    <2>2. e.len # 0
      BY <1>3, <1>11, Fields DEF EvalKey
    <2>3. EvalKey(y) = Done(k)
      BY <1>5, <2>1, <2>2 DEF EvalKey, SameValue
    <2>4. FieldsOf(y) = FieldsOf(s)
      BY <1>11, <2>1 DEF FieldsOf, Ranges
    <2> QED
      BY <1>5, <1>6, <1>8, <1>9, <1>11, <2>3, <2>4, Fields
  <1> QED
    BY <1>10, <1>11

(* A part has a length, a type and an order of bytes.                        *)
LEMMA PartFields ==
  ASSUME NEW e, e = TypeofVerdict \/ PartGiven(e)
  PROVE  "len" \in DOMAIN e /\ "dt" \in DOMAIN e /\ "bo" \in DOMAIN e
  <1>1. e = TypeofVerdict \/ e = OfType(e.dt) \/ e = PayloadTmpl(e.desc, e.tmpl) \/ e = Meta(e.key) \/ e = Ct(e.key)
    BY DEF PartGiven
  <1> QED
    BY <1>1 DEF OfType, PayloadTmpl, Meta, Ct, TypeofVerdict, Verdict

(* So it is with the data.                                                   *)
LEMMA DataAgain ==
  ASSUME TypesFit, NEW s, SetGiven(s), Fine(s), NEW kept, NEW flags, CanSay(s, kept, flags), NEW y, y = Again(s, kept, flags),
         s.map = "data"
  PROVE  /\ (y.data.t = "concat" <=> s.data.t = "concat") /\ SameValue(KnownData(y), KnownData(s))
         /\ EvalData(KeyContext(s), y).err = "none" /\ DataGiven(y)
         /\ (kept => y.data = KnownData(s))
         /\ (~kept => ~TypeofData(y.data))
  <1> DEFINE e == s.data
             d == y.data
             c == KeyContext(s)
  <1>1. d = Said(e, kept) /\ y.map = "data" /\ y.dinterval = s.dinterval
    BY AgainFields
  <1>2. /\ DataGiven(s) /\ s.dinterval \in BOOLEAN /\ EvalData(c, s).err = "none"
    BY DEF SetGiven, Fine
  <1>3. /\ (Typeof(y.key) <=> kept) /\ (y.key.t = "concat" <=> s.key.t = "concat") /\ (AsItsType(s.key) => AsItsType(y.key))
        /\ (s.key.t = "concat" => Len(y.key.es) = Len(s.key.es))
    BY KeyAgain
  <1>4. kept \in BOOLEAN /\ (kept => Typeof(s.key) /\ ~(s.dinterval /\ e.t # "concat"))
    BY DEF CanSay, Retained
  <1> HIDE DEF c
  <1>5. CASE e = TypeofVerdict
    <2>1. d = e /\ kept
      BY <1>1, <1>5, DataLike
    <2>2. e.t = "verdict" /\ e.dt = "verdict" /\ e.len = 0 /\ ~s.dinterval
      BY <1>2, <1>5 DEF TypeofVerdict, Verdict, DataGiven
    <2>3. KnownData(y) = [d EXCEPT !.len = @] /\ KnownData(s) = [e EXCEPT !.len = @]
      BY <1>1, <2>1, <2>2 DEF KnownData
    <2>4. [e EXCEPT !.len = @] = e
      BY <1>5 DEF TypeofVerdict, Verdict
    <2>5. EvalData(c, y) = Done([d EXCEPT !.len = @])
      BY <1>1, <2>1, <2>2 DEF EvalData
    <2>6. DataGiven(y)
      BY <1>1, <1>3, <1>5, <2>1, <2>2 DEF DataGiven, TypeofData
    <2>7. KnownData(y) = d /\ KnownData(s) = d
      BY <2>1, <2>3, <2>4
    <2>8. EvalData(c, y).err = "none"
      BY <2>5, Fields
    <2>9. SameValue(KnownData(y), KnownData(s))
      BY <2>7 DEF SameValue
    <2>10. d = KnownData(s) /\ kept /\ y.data.t = s.data.t
      BY <2>1, <2>7
    <2> HIDE DEF d, e
    <2> QED
      BY <2>6, <2>8, <2>9, <2>10 DEF c, d
  <1>6. CASE e # TypeofVerdict
    <2>1. LikeValue(d, e, kept) /\ ValueGiven(e) /\ Whole(e)
      BY <1>1, <1>6, DataLike
    <2>2. kept => Typeof(e)
      BY <1>2, <1>4, <1>6 DEF DataGiven, TypeofData
    <2>3. /\ ValueGiven(d) /\ Whole(d) /\ (d.t = "concat" <=> e.t = "concat") /\ SameValue(KnownValue(d), KnownValue(e))
          /\ (e.t = "concat" => PartTypes(d) = PartTypes(e) /\ \A p \in Range(d.es) : p \in Range(e.es) \/ p.t = "value")
          /\ (Typeof(d) <=> kept) /\ (AsItsType(e) => AsItsType(d)) /\ (kept => d = KnownValue(e) /\ KnownValue(d) = d)
      BY <2>1, <2>2 DEF LikeValue
    <2>4. d # TypeofVerdict
      <3>1. TypeofVerdict.t = "verdict"
        BY DEF TypeofVerdict, Verdict
      <3>2. d.t # "verdict"
        BY <2>3, PartIs DEF ValueGiven
      <3> QED
        BY <3>1, <3>2
    <2>5. TypeofData(d) <=> kept
      BY <2>3, <2>4 DEF TypeofData
    <2>6. CASE e.t = "concat"
      <3>1. ConcatGiven(e) /\ ConcatGiven(d) /\ AllSized(d) /\ d.t = "concat" /\ Len(d.es) = Len(e.es)
        BY <2>1, <2>3, <2>6, SameLength DEF ValueGiven, Whole
      <3>2. KnownData(y) = KnownValue(d) /\ KnownData(s) = KnownValue(e)
        BY <1>1, <2>6, <3>1 DEF KnownData, KnownValue
      <3>3. EvalData(c, y) = EvalConcat(c, d) /\ EvalData(c, s) = EvalConcat(c, e)
        BY <1>1, <2>6, <3>1 DEF EvalData
      <3>4. EvalConcat(c, d).err = "none"
        BY <1>2, <2>3, <2>6, <3>1, <3>3, ConcatAgain
      <3>5. DataGiven(y)
        <4>1. s.key.t = "concat" => Len(e.es) <= Len(s.key.es)
          BY <1>2, <2>6 DEF DataGiven
        <4> QED
          BY <1>3, <2>3, <2>5, <3>1, <4>1 DEF DataGiven, AllSized
      <3>6. SameValue(KnownData(y), KnownData(s)) /\ EvalData(c, y).err = "none"
        BY <2>3, <3>2, <3>3, <3>4
      <3>7. kept => y.data = KnownData(s)
        BY <2>3, <3>2
      <3>8. ~kept => ~TypeofData(y.data)
        BY <2>5
      <3>9. y.data.t = "concat" <=> s.data.t = "concat"
        BY <2>6, <3>1
      <3> HIDE DEF d, e
      <3> QED
        BY <3>5, <3>6, <3>7, <3>8, <3>9 DEF c
    <2>7. CASE e.t # "concat"
      <3>1. d.t # "concat" /\ d.dt = e.dt /\ d.len = e.len /\ d.bo = e.bo /\ PartGiven(d) /\ PartGiven(e) /\ e.len \in Nat
        BY <2>1, <2>3, <2>7, PartIs DEF KnownValue, SameValue, ValueGiven
      <3>2. /\ KnownData(y) = [d EXCEPT !.len = IF s.dinterval THEN 2 * @ ELSE @]
            /\ KnownData(s) = [e EXCEPT !.len = IF s.dinterval THEN 2 * @ ELSE @]
        BY <1>1, <2>7, <3>1 DEF KnownData
      <3>3. SameValue(KnownData(y), KnownData(s))
        <4>1. "len" \in DOMAIN e /\ "dt" \in DOMAIN e /\ "bo" \in DOMAIN e /\ "len" \in DOMAIN d /\ "dt" \in DOMAIN d /\ "bo" \in DOMAIN d
          BY <3>1, PartFields
        <4> HIDE DEF d, e
        <4>2. KnownData(y).dt = d.dt /\ KnownData(y).bo = d.bo /\ KnownData(y).len = IF s.dinterval THEN 2 * d.len ELSE d.len
          BY <3>2, <4>1
        <4>3. KnownData(s).dt = e.dt /\ KnownData(s).bo = e.bo /\ KnownData(s).len = IF s.dinterval THEN 2 * e.len ELSE e.len
          BY <3>2, <4>1
        <4> QED
          BY <3>1, <4>2, <4>3 DEF SameValue
      <3>4. ~(e.len = 0 /\ e.dt # "verdict")
        BY <1>2, <2>7, Fields DEF EvalData
      <3>5. EvalData(c, y) = Done([d EXCEPT !.len = IF y.dinterval THEN 2 * @ ELSE @])
        BY <1>1, <3>1, <3>4 DEF EvalData
      <3>6. DataGiven(y)
        <4>1. s.dinterval => /\ e.dt # "verdict" /\ Bytes(2 * e.len) = 2 * Bytes(e.len)
                             /\ AsItsType(s.key) /\ AsItsType(e)
          BY <1>2, <2>7 DEF DataGiven
        <4> QED
          BY <1>1, <1>3, <2>3, <2>5, <3>1, <4>1 DEF DataGiven
      <3>7. kept => d = KnownData(s)
        <4>1. SUFFICES ASSUME kept PROVE d = KnownData(s)
          OBVIOUS
        <4>2. d = e /\ ~s.dinterval
          BY <1>4, <2>3, <2>7, <4>1 DEF KnownValue
        <4>3. KnownData(s) = [e EXCEPT !.len = @]
          BY <3>2, <4>2
        <4>4. e = OfType(e.dt) \/ e = PayloadTmpl(e.desc, e.tmpl) \/ e = Meta(e.key) \/ e = Ct(e.key)
          BY <3>1 DEF PartGiven
        <4>5. [e EXCEPT !.len = @] = e
          BY <4>4 DEF OfType, PayloadTmpl, Meta, Ct
        <4> QED
          BY <4>2, <4>3, <4>5
      <3>8. EvalData(c, y).err = "none"
        BY <3>5, Fields
      <3>9. ~kept => ~TypeofData(y.data)
        BY <2>5
      <3>10. y.data.t = "concat" <=> s.data.t = "concat"
        BY <2>7, <3>1
      <3> HIDE DEF d, e
      <3> QED
        BY <3>3, <3>6, <3>7, <3>8, <3>9, <3>10 DEF c, d
    <2> QED
      BY <2>6, <2>7
  <1> QED
    BY <1>5, <1>6

(* A set that is read again is one that can be given and is accepted, and it *)
(* is listed with typeof again if it was.                                    *)
LEMMA GivenAgain ==
  ASSUME TypesFit, NEW s, SetGiven(s), Fine(s), NEW kept, NEW flags, CanSay(s, kept, flags), NEW y, y = Again(s, kept, flags)
  PROVE  SetGiven(y) /\ Fine(y) /\ SameValue(KnownData(y), KnownData(s)) /\ (Retained(y) <=> kept)
  <1>1. /\ y = [f \in SetFields |-> y[f]] /\ y.flags = flags /\ y.data = (IF s.map = "data" THEN Said(s.data, kept) ELSE None)
        /\ y.map = s.map /\ y.dinterval = s.dinterval /\ y.obj = s.obj /\ y.timeout = s.timeout /\ y.gc = s.gc
        /\ y.size = s.size /\ y.policy = s.policy /\ y.merge = s.merge /\ y.stmts = s.stmts
    BY AgainFields
  <1>2. /\ ValueGiven(y.key) /\ (Typeof(y.key) <=> kept)
        /\ EvalKey(y).err = "none" /\ KeyContext(y) = KeyContext(s) /\ (y.merge => "interval" \in y.flags)
    BY KeyAgain
  <1>3. kept => Typeof(s.key) /\ ~(s.dinterval /\ s.data.t # "concat")
    BY DEF CanSay, Retained
  <1>4. /\ s.map \in {"no", "data", "obj"} /\ {s.dinterval, s.merge} \subseteq BOOLEAN
        /\ {s.timeout, s.gc} \subseteq Nat
        /\ ("constant" \in s.flags => s.size = 0 /\ s.policy = "performance")
        /\ (s.gc # 0 => s.timeout # 0 \/ "timeout" \in s.flags)
        /\ (s.map # "no" => ~s.merge /\ s.stmts = <<>> /\ s.gc = 0)
        /\ (s.map = "data" => s.obj = "none")
        /\ (s.map # "data" => s.data = None /\ ~s.dinterval)
        /\ (s.map = "no" => s.obj = "none")
        /\ (s.map = "obj" => s.obj \in MapObjects /\ ~Typeof(s.key))
    BY DEF SetGiven
  <1>5. /\ "constant" \in flags <=> "constant" \in s.flags
        /\ s.timeout # 0 \/ ("timeout" \in flags <=> "timeout" \in s.flags)
        /\ flags \subseteq ShownFlags
    BY FlagsAgain DEF CanSay
  <1>6. s.map = "data" => /\ DataGiven(y) /\ EvalData(KeyContext(y), y).err = "none" /\ SameValue(KnownData(y), KnownData(s))
                          /\ (y.data.t = "concat" <=> s.data.t = "concat")
    BY <1>2, DataAgain
  <1>7. s.map # "data" => EvalData(KeyContext(y), y).err = "none" /\ SameValue(KnownData(y), KnownData(s))
    BY <1>1, <1>4, Fields DEF EvalData, KnownData, SameValue
  <1>8. SetGiven(y)
    <2>1. /\ y.flags \subseteq ShownFlags /\ {y.timeout, y.gc} \subseteq Nat
          /\ ("constant" \in y.flags => y.size = 0 /\ y.policy = "performance")
          /\ (y.gc # 0 => y.timeout # 0 \/ "timeout" \in y.flags)
      BY <1>1, <1>4, <1>5
    <2>2. /\ ValueGiven(y.key) /\ y.map \in {"no", "data", "obj"} /\ {y.dinterval, y.merge} \subseteq BOOLEAN
          /\ (y.map # "no" => ~y.merge /\ y.stmts = <<>> /\ y.gc = 0)
          /\ (y.map # "data" => y.data = None /\ ~y.dinterval)
          /\ (y.map = "no" => y.obj = "none")
      BY <1>1, <1>2, <1>4
    <2>3. (y.map = "data" => y.obj = "none" /\ DataGiven(y)) /\ (y.map = "obj" => y.obj \in MapObjects /\ ~Typeof(y.key))
      BY <1>1, <1>2, <1>3, <1>4, <1>6
    <2> QED
      BY <1>1, <2>1, <2>2, <2>3 DEF SetGiven
  <1>9. Fine(y)
    BY <1>2, <1>6, <1>7 DEF Fine
  <1>10. Retained(y) <=> kept
    BY <1>1, <1>2, <1>3, <1>4, <1>6 DEF Retained
  <1> QED
    BY <1>6, <1>7, <1>8, <1>9, <1>10

(* The message of what is read is the same, but for what typeof was given.   *)
MessageLike(n, m) ==
  /\ n.t = m.t /\ n.flags = m.flags /\ n.map = m.map /\ n.obj = m.obj /\ n.fields = m.fields /\ n.key = m.key
  /\ n.data = m.data /\ n.timeout = m.timeout /\ n.gc = m.gc /\ n.stmts = m.stmts /\ n.policy = m.policy /\ n.size = m.size
  /\ n.udata.keybo = m.udata.keybo /\ n.udata.databo = m.udata.databo /\ n.udata.merge = m.udata.merge
  /\ n.udata.dinterval = m.udata.dinterval /\ n.udata.comment = m.udata.comment

(* So it is loaded as the same message, but for typeof, and does the same.   *)
LEMMA MessageAgain ==
  ASSUME TypesFit, NEW s, SetGiven(s), Fine(s), NEW kept, NEW flags, CanSay(s, kept, flags), NEW y, y = Again(s, kept, flags)
  PROVE  MessageLike(SetMsg(y), SetMsg(s)) /\ SetDoes(SetMsg(y)) = SetDoes(SetMsg(s))
  <1>1. /\ y.map = s.map /\ y.dinterval = s.dinterval /\ y.obj = s.obj /\ y.timeout = s.timeout /\ y.gc = s.gc
        /\ y.size = s.size /\ y.policy = s.policy /\ y.merge = s.merge /\ y.stmts = s.stmts /\ y.comment = s.comment
    BY AgainFields
  <1>2. /\ KnownValue(y.key).dt = KnownValue(s.key).dt /\ KnownValue(y.key).len = KnownValue(s.key).len
        /\ KnownValue(y.key).bo = KnownValue(s.key).bo
        /\ FieldsOf(y) = FieldsOf(s) /\ y.flags \cup Implied(y) = s.flags \cup Implied(s)
    BY KeyAgain DEF SameValue
  <1>3. /\ KnownData(y).dt = KnownData(s).dt /\ KnownData(y).len = KnownData(s).len /\ KnownData(y).bo = KnownData(s).bo
    BY GivenAgain DEF SameValue
  <1>4. MessageLike(SetMsg(y), SetMsg(s))
    BY <1>1, <1>2, <1>3 DEF MessageLike, SetMsg
  <1> DEFINE n == SetMsg(y)
             m == SetMsg(s)
  <1> HIDE DEF n, m
  <1>5. SetDoes(n) = SetDoes(m)
    BY <1>4 DEF MessageLike, SetDoes, n, m
  <1> QED
    BY <1>4, <1>5 DEF n, m

(* What the listing makes of the user data of data.                          *)
LEMMA DataTypeofIs ==
  ASSUME TypesFit, NEW s, SetGiven(s), Fine(s), s.map = "data"
  PROVE  /\ DataTypeof(SetMsg(s)) <=> TypeofData(s.data) /\ ~(s.dinterval /\ s.data.t # "concat")
         /\ DataTypeof(SetMsg(s)) => TypeofText(SetData(SetMsg(s))) = IF s.data = TypeofVerdict THEN TypeofVerdict ELSE KnownData(s)
         /\ s.data # TypeofVerdict => SetData(SetMsg(s)).dt = KnownData(s).dt
  <1> DEFINE e == s.data
             k == KnownData(s)
             m == SetMsg(s)
             u == BuildUdata(k)
             valid == u.t # "none" /\ Bytes(ParseUdata(u).len) = m.data.len
  <1>1. /\ m.map = "data" /\ m.data = [dt |-> k.dt, len |-> IF k.dt = "verdict" THEN VerdictBytes ELSE Bytes(k.len)]
        /\ m.udata.dataof = u
    BY DEF SetMsg
  <1>2. /\ m.data.dt = k.dt /\ m.data.len = IF k.dt = "verdict" THEN VerdictBytes ELSE Bytes(k.len)
    <2> HIDE DEF m, k
    <2> QED
      BY <1>1
  <1>3. DataGiven(s) /\ s.dinterval \in BOOLEAN /\ Byte \in {4, 8}
    BY DEF SetGiven, TypesFit
  <1> HIDE DEF m, k, u
  <1>4. DataTypeof(m) <=> valid
    BY <1>1 DEF DataTypeof, UdataValid
  <1>5. SetData(m) = IF DataTypeof(m) THEN ParseUdata(u) ELSE ConstantOf(m.data, m.udata.databo)
    BY <1>1 DEF SetData
  <1>6. ConstantOf(m.data, m.udata.databo).dt = k.dt
    BY <1>2 DEF ConstantOf
  <1>7. CASE e = TypeofVerdict
    <2>1. e.t = "verdict" /\ e.dt = "verdict" /\ e.len = 0 /\ ~s.dinterval /\ e.t # "concat"
      BY <1>3, <1>7 DEF TypeofVerdict, Verdict, DataGiven
    <2>2. k = e
      <3>1. k = [e EXCEPT !.len = @]
        BY <2>1 DEF KnownData, k
      <3>2. [e EXCEPT !.len = @] = e
        BY <1>7 DEF TypeofVerdict, Verdict
      <3> QED
        BY <3>1, <3>2
    <2> HIDE DEF e
    <2>3. u = PartUdata(e)
      BY <2>1, <2>2 DEF u, BuildUdata, Constant
    <2>4. u = [t |-> "verdict"]
      BY <2>1, <2>3 DEF PartUdata
    <2>5. u.t = "verdict"
      BY <2>4
    <2>6. ParseUdata(u) = [t |-> "symbol", dt |-> "invalid", len |-> VerdictBytes * Byte, bo |-> "none"]
      BY <2>5 DEF ParseUdata, PartOfUdata
    <2>7. ParseUdata(u).len = 16 * Byte /\ ParseUdata(u).t = "symbol"
      BY <2>6 DEF VerdictBytes
    <2>8. Bytes(16 * Byte) = 16
      <3>1. CASE Byte = 4
        BY <3>1 DEF Bytes, DivRoundUp
      <3>2. CASE Byte = 8
        BY <3>2 DEF Bytes, DivRoundUp
      <3> QED
        BY <1>3, <3>1, <3>2
    <2>9. m.data.len = 16
      BY <1>2, <2>1, <2>2 DEF VerdictBytes
    <2>10. DataTypeof(m)
      BY <1>4, <2>5, <2>7, <2>8, <2>9
    <2>11. TypeofText(SetData(m)) = TypeofVerdict
      BY <1>5, <2>7, <2>10 DEF TypeofText, TypeofVerdict
    <2>12. TypeofData(e)
      BY <1>7 DEF TypeofData
    <2> QED
      BY <1>7, <2>1, <2>10, <2>11, <2>12 DEF m, e
  <1>8. CASE e # TypeofVerdict
    <2>1. ValueGiven(e) /\ Whole(e) /\ (TypeofData(e) <=> Typeof(e)) /\ (e.t # "concat" /\ s.dinterval => e.len # 0)
      BY <1>8, FineData DEF TypeofData
    <2>2. CASE Typeof(e) /\ (e.t = "concat" \/ ~s.dinterval)
      <3>1. k = KnownValue(e)
        <4>1. CASE e.t = "concat"
          BY <4>1 DEF KnownData, KnownValue, k
        <4>2. CASE e.t # "concat"
          <5>1. k = [e EXCEPT !.len = @] /\ KnownValue(e) = e
            BY <2>2, <4>2 DEF KnownData, KnownValue, k
          <5>2. e = OfType(e.dt) \/ e = PayloadTmpl(e.desc, e.tmpl) \/ e = Meta(e.key) \/ e = Ct(e.key)
            BY <2>1, <4>2 DEF ValueGiven, PartGiven
          <5>3. [e EXCEPT !.len = @] = e
            BY <5>2 DEF OfType, PayloadTmpl, Meta, Ct
          <5> QED
            BY <5>1, <5>3
        <4> QED
          BY <4>1, <4>2
      <3>2. u.t # "none" /\ ParseUdata(u) = k
        BY <2>1, <2>2, <3>1, UdataOfValue DEF u
      <3>3. k.dt # "verdict"
        <4>1. CASE e.t = "concat"
          BY <2>1, <3>1, <4>1, ValueIsKept
        <4>2. CASE e.t # "concat"
          BY <2>1, <2>2, <3>1, <4>2 DEF KnownValue, ValueGiven, PartGiven, Typeof
        <4> QED
          BY <4>1, <4>2
      <3>4. DataTypeof(m)
        BY <1>2, <1>4, <3>2, <3>3
      <3>5. k.t # "symbol"
        BY <2>1, <3>1, KnownAgain, PartIs DEF ValueGiven
      <3>6. SetData(m) = k
        BY <1>5, <3>2, <3>4
      <3>7. TypeofText(SetData(m)) = k
        BY <3>5, <3>6 DEF TypeofText
      <3> HIDE DEF e
      <3> QED
        BY <1>8, <2>1, <2>2, <3>4, <3>6, <3>7 DEF m, k, e
    <2>3. CASE Typeof(e) /\ e.t # "concat" /\ s.dinterval
      <3>1. k = [e EXCEPT !.len = 2 * @]
        BY <2>3 DEF KnownData, k
      <3>2. PartGiven(e) /\ e.t # "value" /\ e.len \in Nat /\ e.len # 0
        BY <2>1, <2>3, PartIs DEF ValueGiven, Typeof
      <3>3. k.len = 2 * e.len /\ k.dt = e.dt /\ k.t = e.t /\ (e.t = "payload" => k.desc = e.desc /\ k.tmpl = e.tmpl)
            /\ (e.t # "payload" => k.key = e.key)
        <4>1. "len" \in DOMAIN e
          BY <3>2, PartFields
        <4> HIDE DEF e
        <4> QED
          BY <3>1, <4>1
      <3>4. ParseUdata(u) = e
        BY <3>2, <3>3, UdataOfPart DEF u
      <3>5. e.dt # "verdict" /\ Bytes(2 * e.len) = 2 * Bytes(e.len)
        BY <1>3, <2>3 DEF DataGiven
      <3>6. m.data.len = 2 * Bytes(e.len) /\ Bytes(e.len) \in Nat /\ Bytes(e.len) # 0
        BY <1>2, <1>3, <3>2, <3>3, <3>5, BytesAre
      <3> HIDE DEF e
      <3>7. ~DataTypeof(m)
        BY <1>4, <3>4, <3>6
      <3>8. SetData(m).dt = k.dt
        BY <1>5, <1>6, <3>7
      <3> QED
        BY <2>3, <3>7, <3>8 DEF m, k, e
    <2>4. CASE ~Typeof(e)
      <3>1. u.t = "none"
        <4>1. CASE e.t = "concat"
          <5>1. k = KnownValue(e)
            BY <4>1 DEF KnownData, KnownValue, k
          <5> QED
            BY <2>1, <2>4, <5>1, UdataOfConstant DEF u, None
        <4>2. CASE e.t # "concat"
          <5>1. e.t = "value" /\ k = [e EXCEPT !.len = IF s.dinterval THEN 2 * @ ELSE @]
            BY <2>4, <4>2 DEF KnownData, Typeof, k
          <5> HIDE DEF e
          <5>2. k.t = "value"
            BY <5>1
          <5> QED
            BY <5>2 DEF u, BuildUdata, Constant, None
        <4> QED
          BY <4>1, <4>2
      <3>2. ~DataTypeof(m)
        BY <1>4, <3>1
      <3>3. SetData(m).dt = k.dt
        BY <1>5, <1>6, <3>2
      <3> HIDE DEF e
      <3> QED
        BY <2>1, <2>4, <3>2, <3>3 DEF m, k, e
    <2> QED
      BY <2>2, <2>3, <2>4
  <1> QED
    BY <1>7, <1>8

(* The name of a type is read as that type.                                  *)
LEMMA TypeTextIs ==
  ASSUME TypesFit, NEW e, ValueGiven(e), Whole(e), AsItsType(e)
  PROVE  TypeText(KnownValue(e).dt) = TypeExpr(KnownValue(e).dt)
  <1>1. CASE e.t = "concat"
    <2>1. ConcatGiven(e) /\ AllSized(e) /\ KnownValue(e) = ConcatOf(e.es)
      BY <1>1 DEF ValueGiven, Whole, KnownValue
    <2>2. KnownValue(e).dt \in DOMAIN Concats
      BY <2>1, ConcatTypes
    <2> QED
      BY <2>2 DEF TypeText
  <1>2. CASE e.t # "concat"
    <2>1. KnownValue(e) = e /\ e.dt \in DOMAIN Types
      BY <1>2, PartIs DEF KnownValue, ValueGiven
    <2>2. e.dt \notin DOMAIN Concats
      BY <2>1 DEF TypesFit
    <2>3. Types[e.dt].size # 0 \/ e.dt = "verdict"
      BY <1>2 DEF AsItsType, Whole
    <2> QED
      BY <2>1, <2>2, <2>3 DEF TypeText, TypeExpr, Named
  <1> QED
    BY <1>1, <1>2

(* A set that is listed without typeof is one of types alone.                *)
LEMMA NotRetained ==
  ASSUME NEW s, SetGiven(s), ~Retained(s)
  PROVE  AsItsType(s.key) /\ (s.map = "data" => AsItsType(s.data) /\ s.data # TypeofVerdict)
  <1>1. ValueGiven(s.key) /\ (s.map = "data" => DataGiven(s)) /\ (s.map # "data" => ~s.dinterval)
    BY DEF SetGiven
  <1>2. CASE ~Typeof(s.key)
    <2>1. AsItsType(s.key)
      BY <1>1, <1>2, ConstantIsType
    <2>2. ASSUME s.map = "data" PROVE AsItsType(s.data) /\ s.data # TypeofVerdict
      <3>1. ~TypeofData(s.data) /\ (s.data = TypeofVerdict \/ ValueGiven(s.data))
        BY <1>1, <1>2, <2>2 DEF DataGiven
      <3>2. s.data # TypeofVerdict /\ ~Typeof(s.data) /\ ValueGiven(s.data)
        BY <3>1 DEF TypeofData
      <3> QED
        BY <3>2, ConstantIsType
    <2> QED
      BY <2>1, <2>2
  <1>3. CASE s.dinterval /\ s.data.t # "concat"
    <2>1. s.map = "data"
      BY <1>1, <1>3
    <2>2. AsItsType(s.key) /\ AsItsType(s.data) /\ s.data.dt # "verdict"
      BY <1>1, <1>3, <2>1 DEF DataGiven
    <2>3. s.data # TypeofVerdict
      BY <2>2 DEF TypeofVerdict, Verdict
    <2> QED
      BY <2>2, <2>3
  <1> QED
    BY <1>2, <1>3 DEF Retained

(* A set is listed with typeof when the user data of its key says so, and    *)
(* with what was given then; with the types otherwise (set_print_key(),      *)
(* set_print_data()).                                                        *)
LEMMA KeyTypeofIs ==
  ASSUME TypesFit, NEW s, SetGiven(s), Fine(s)
  PROVE  /\ KeyTypeof(SetMsg(s)) <=> Retained(s)
         /\ SetKey(SetMsg(s)).dt = KnownValue(s.key).dt
         /\ KeyText(SetMsg(s)) = Said(s.key, Retained(s))
         /\ s.map = "data" => DataText(SetMsg(s)) = Said(s.data, Retained(s))
         /\ s.map # "data" => DataText(SetMsg(s)) = None
  <1> DEFINE e == s.key
             k == KnownValue(e)
             m == SetMsg(s)
             u == BuildUdata(k)
             valid == u.t # "none" /\ Bytes(ParseUdata(u).len) = m.key.len
  <1>1. /\ m.map = s.map /\ m.key = [dt |-> k.dt, len |-> Bytes(k.len)] /\ m.udata.keyof = u
        /\ (s.map = "obj" => m.udata.dataof = BuildUdata(ObjectData))
    BY DEF SetMsg, KnownData
  <1>2. /\ s.map \in {"no", "data", "obj"} /\ ValueGiven(e) /\ Whole(e) /\ s.dinterval \in BOOLEAN
        /\ (s.map # "data" => ~s.dinterval) /\ (s.map = "obj" => ~Typeof(e))
        /\ (s.map = "data" => DataGiven(s))
    BY FineKey DEF SetGiven
  <1>3. m.key.dt = k.dt /\ m.key.len = Bytes(k.len)
    <2> HIDE DEF m, k
    <2> QED
      BY <1>1
  <1>4. valid <=> Typeof(e)
    <2>1. CASE Typeof(e)
      <3>1. u.t # "none" /\ ParseUdata(u) = k
        BY <1>2, <2>1, UdataOfValue
      <3> HIDE DEF m, k, u
      <3> QED
        BY <1>3, <2>1, <3>1
    <2>2. CASE ~Typeof(e)
      <3>1. u.t = "none"
        BY <1>2, <2>2, UdataOfConstant DEF None
      <3> HIDE DEF m, k, u
      <3> QED
        BY <2>2, <3>1
    <2> QED
      BY <2>1, <2>2
  <1>5. s.map = "data" => (DataTypeof(m) <=> TypeofData(s.data) /\ ~(s.dinterval /\ s.data.t # "concat"))
                          /\ (TypeofData(s.data) <=> Typeof(e))
    BY <1>2, DataTypeofIs DEF DataGiven
  <1>6. s.map = "obj" => ~DataTypeof(m)
    <2>1. BuildUdata(ObjectData) = None
      BY DEF BuildUdata, ObjectData, Constant
    <2> HIDE DEF m
    <2> QED
      BY <1>1, <2>1 DEF DataTypeof, UdataValid, None
  <1> HIDE DEF m, k
  <1>7. KeyTypeof(m) <=> valid /\ (s.map # "no" => DataTypeof(m))
    BY <1>1 DEF KeyTypeof, UdataValid, u
  <1> HIDE DEF valid
  <1>8. KeyTypeof(m) <=> Retained(s)
    BY <1>2, <1>4, <1>5, <1>6, <1>7 DEF Retained
  <1>9. ASSUME Retained(s)
        PROVE  SetKey(m) = k /\ k.t # "symbol"
    <2>1. Typeof(e)
      BY <1>9 DEF Retained
    <2>2. ParseUdata(u) = k
      BY <1>2, <2>1, UdataOfValue DEF k, u
    <2>3. SetKey(m) = k
      BY <1>1, <1>8, <1>9, <2>2 DEF SetKey
    <2>4. k.t # "symbol"
      BY <1>2, KnownAgain, PartIs DEF ValueGiven, k
    <2> QED
      BY <2>3, <2>4
  <1>10. ASSUME ~Retained(s)
         PROVE  /\ SetKey(m).dt = k.dt /\ KeyText(m) = TypeExpr(k.dt)
                /\ s.map = "data" => DataText(m) = TypeExpr(KnownValue(s.data).dt)
    <2>1. SetKey(m).dt = k.dt
      BY <1>3, <1>8, <1>10 DEF SetKey, ConstantOf
    <2>2. TypeText(k.dt) = TypeExpr(k.dt)
      BY <1>2, <1>10, NotRetained, TypeTextIs DEF k
    <2>3. KeyText(m) = TypeExpr(k.dt)
      BY <1>3, <1>8, <1>10, <2>2 DEF KeyText
    <2>4. ASSUME s.map = "data" PROVE DataText(m) = TypeExpr(KnownValue(s.data).dt)
      <3>1. AsItsType(s.data) /\ s.data # TypeofVerdict
        BY <1>10, <2>4, NotRetained
      <3>2. ValueGiven(s.data) /\ Whole(s.data)
        BY <2>4, <3>1, FineData
      <3>3. SetData(m).dt = KnownData(s).dt
        BY <2>4, <3>1, DataTypeofIs DEF m
      <3>4. KnownData(s).dt = KnownValue(s.data).dt
        <4>1. CASE s.data.t = "concat"
          BY <2>4, <4>1 DEF KnownData, KnownValue
        <4>2. CASE s.data.t # "concat"
          <5>1. KnownData(s) = [s.data EXCEPT !.len = IF s.dinterval THEN 2 * @ ELSE @] /\ KnownValue(s.data) = s.data
            BY <2>4, <4>2 DEF KnownData, KnownValue
          <5>2. "dt" \in DOMAIN s.data
            BY <3>2, <4>2, PartFields DEF ValueGiven
          <5> QED
            BY <5>1, <5>2
        <4> QED
          BY <4>1, <4>2
      <3>5. DataText(m) = TypeText(SetData(m).dt)
        BY <1>1, <1>8, <1>10, <2>4 DEF DataText
      <3> QED
        BY <3>1, <3>2, <3>3, <3>4, <3>5, TypeTextIs
    <2> QED
      BY <2>1, <2>3, <2>4
  <1>11. s.map # "data" => DataText(m) = None
    BY <1>1 DEF DataText
  <1>12. CASE Retained(s)
    <2>1. KeyText(m) = k /\ Said(e, Retained(s)) = k
      BY <1>8, <1>9, <1>12 DEF KeyText, TypeofText, Said, k
    <2>2. ASSUME s.map = "data" PROVE DataText(m) = Said(s.data, Retained(s))
      <3>1. DataText(m) = TypeofText(SetData(m))
        BY <1>1, <1>8, <1>12, <2>2 DEF DataText
      <3>2. ~(s.dinterval /\ s.data.t # "concat") /\ DataTypeof(m)
        BY <1>5, <1>12, <2>2 DEF Retained
      <3>3. TypeofText(SetData(m)) = IF s.data = TypeofVerdict THEN TypeofVerdict ELSE KnownData(s)
        BY <2>2, <3>2, DataTypeofIs DEF m
      <3>4. Said(s.data, Retained(s)) = KnownValue(s.data)
        BY <1>12 DEF Said
      <3>5. CASE s.data = TypeofVerdict
        <4>1. KnownValue(s.data) = s.data
          BY <3>5 DEF KnownValue, TypeofVerdict, Verdict
        <4> QED
          BY <3>1, <3>3, <3>4, <3>5, <4>1
      <3>6. CASE s.data # TypeofVerdict
        <4>1. KnownData(s) = KnownValue(s.data)
          <5>1. CASE s.data.t = "concat"
            BY <2>2, <5>1 DEF KnownData, KnownValue
          <5>2. CASE s.data.t # "concat"
            <6>1. KnownData(s) = [s.data EXCEPT !.len = @] /\ KnownValue(s.data) = s.data
              BY <2>2, <3>2, <5>2 DEF KnownData, KnownValue
            <6>2. PartGiven(s.data)
              BY <2>2, <3>6, <5>2, FineData DEF ValueGiven
            <6>3. \/ s.data = OfType(s.data.dt) \/ s.data = PayloadTmpl(s.data.desc, s.data.tmpl)
                  \/ s.data = Meta(s.data.key) \/ s.data = Ct(s.data.key)
              BY <6>2 DEF PartGiven
            <6>4. [s.data EXCEPT !.len = @] = s.data
              BY <6>3 DEF OfType, PayloadTmpl, Meta, Ct
            <6> QED
              BY <6>1, <6>4
          <5> QED
            BY <5>1, <5>2
        <4> QED
          BY <3>1, <3>3, <3>4, <3>6, <4>1
      <3> QED
        BY <3>5, <3>6
    <2> QED
      BY <1>8, <1>9, <1>11, <1>12, <2>1, <2>2 DEF m, k
  <1>13. CASE ~Retained(s)
    BY <1>8, <1>10, <1>11, <1>13 DEF m, k, Said
  <1> QED
    BY <1>12, <1>13

-----------------------------------------------------------------------------
(* Sets as text.                                                             *)

(* The flag of timeouts is not said beside a timeout.                        *)
LEMMA FlagsSaid ==
  ASSUME NEW s, SetGiven(s), NEW flags, flags = FlagsText(s.flags \cup Implied(s), s.timeout)
  PROVE  flags \subseteq ShownFlags /\ flags \cup Timed(s) = s.flags \cup Timed(s)
  <1>1. s.flags \subseteq ShownFlags
    BY DEF SetGiven
  <1>2. (s.flags \cup Implied(s)) \cap ShownFlags = s.flags \cup Timed(s)
    BY <1>1 DEF Implied, Timed, ShownFlags
  <1>3. flags = IF (s.flags \cup Timed(s)) \ Timed(s) = {} THEN {} ELSE s.flags \cup Timed(s)
    BY <1>2 DEF FlagsText, Timed
  <1>4. Timed(s) \subseteq ShownFlags
    BY DEF Timed, ShownFlags
  <1> QED
    BY <1>1, <1>3, <1>4

(* So what is listed as text can be said again.                              *)
LEMMA TextCanSay ==
  ASSUME NEW s, SetGiven(s)
  PROVE  CanSay(s, Retained(s), FlagsText(s.flags \cup Implied(s), s.timeout))
  <1>1. Retained(s) \in BOOLEAN
    BY DEF Retained
  <1> QED
    BY <1>1, NotRetained, FlagsSaid DEF CanSay

(* What is said has an expression that the grammar can read.                 *)
LEMMA SaidIs ==
  ASSUME TypesFit, NEW e, NEW kept \in BOOLEAN, ValueGiven(e), Whole(e), kept \/ AsItsType(e)
  PROVE  Said(e, kept).t \in {"value", "payload", "meta", "ct", "concat"} /\ (kept /\ Typeof(e) => Said(e, kept).t # "value")
  <1>1. ValueGiven(Said(e, kept)) /\ (Typeof(Said(e, kept)) <=> kept /\ Typeof(e))
    BY SaidAgain
  <1> QED
    BY <1>1, PartIs DEF ValueGiven, Typeof

(* The fields of a set as it is listed (do_set_print(),                      *)
(* set_print_declaration()).                                                 *)
LEMMA TextFieldsOf ==
  ASSUME TypesFit, NEW s, SetGiven(s), Fine(s)
  PROVE  LET x == SetText(SetMsg(s))
             y == Again(s, Retained(s), FlagsText(s.flags \cup Implied(s), s.timeout))
         IN  /\ DOMAIN x = SetFields \cup {"typeof"} /\ x.t = "set" /\ (x.typeof <=> Retained(s))
             /\ x.key = y.key /\ x.data = y.data /\ x.flags = y.flags /\ x.map = y.map /\ x.obj = y.obj
             /\ (x.dinterval <=> y.dinterval) /\ x.dinterval \in BOOLEAN /\ x.policy = y.policy /\ x.size = y.size
             /\ x.timeout = TimePrint(y.timeout) /\ x.gc = TimePrint(y.gc) /\ x.merge = y.merge /\ x.stmts = y.stmts
             /\ x.comment = y.comment
  <1> DEFINE m == SetMsg(s)
             x == SetText(m)
             flags == FlagsText(s.flags \cup Implied(s), s.timeout)
             y == Again(s, Retained(s), flags)
  <1>1. /\ m.map = s.map /\ m.obj = s.obj /\ m.flags = s.flags \cup Implied(s) /\ m.timeout = s.timeout /\ m.gc = s.gc
        /\ m.policy = s.policy /\ m.size = s.size /\ m.stmts = s.stmts /\ m.udata.merge = s.merge
        /\ m.udata.dinterval = s.dinterval /\ m.udata.comment = s.comment
    BY DEF SetMsg
  <1>2. /\ KeyTypeof(m) <=> Retained(s)
        /\ KeyText(m) = Said(s.key, Retained(s))
        /\ DataText(m) = IF s.map = "data" THEN Said(s.data, Retained(s)) ELSE None
    BY KeyTypeofIs
  <1>3. /\ y.key = Said(s.key, Retained(s)) /\ y.flags = flags
        /\ y.data = (IF s.map = "data" THEN Said(s.data, Retained(s)) ELSE None)
        /\ y.map = s.map /\ y.dinterval = s.dinterval /\ y.obj = s.obj /\ y.timeout = s.timeout /\ y.gc = s.gc
        /\ y.size = s.size /\ y.policy = s.policy /\ y.merge = s.merge /\ y.stmts = s.stmts /\ y.comment = s.comment
    BY AgainFields
  <1>4. "constant" \in m.flags => s.policy = "performance" /\ s.size = 0
    BY <1>1, ImpliedFlags DEF SetGiven
  <1>5. (s.map # "data" => ~s.dinterval) /\ s.dinterval \in BOOLEAN
    BY DEF SetGiven
  <1> HIDE DEF m, y
  <1>6. /\ DOMAIN x = SetFields \cup {"typeof"} /\ x.t = "set" /\ (x.typeof <=> KeyTypeof(m))
        /\ x.key = KeyText(m) /\ x.data = DataText(m) /\ x.flags = FlagsText(m.flags, m.timeout) /\ x.map = m.map /\ x.obj = m.obj
        /\ (x.dinterval <=> m.map = "data" /\ m.udata.dinterval) /\ x.dinterval \in BOOLEAN
        /\ x.policy = (IF "constant" \notin m.flags THEN m.policy ELSE "performance")
        /\ x.size = (IF "constant" \notin m.flags THEN m.size ELSE 0)
        /\ x.timeout = TimePrint(m.timeout) /\ x.gc = TimePrint(m.gc) /\ x.merge = m.udata.merge /\ x.stmts = m.stmts
        /\ x.comment = m.udata.comment
    BY DEF SetText, SetFields
  <1> HIDE DEF x, flags
  <1>7. x.flags = y.flags
    BY <1>1, <1>3, <1>6 DEF flags
  <1>8. (x.dinterval <=> y.dinterval) /\ x.policy = y.policy /\ x.size = y.size
    BY <1>1, <1>3, <1>4, <1>5, <1>6
  <1> QED
    BY <1>1, <1>2, <1>3, <1>6, <1>7, <1>8 DEF m, x, y, flags

(* What the grammar reads of them is the set it was, with what the listing   *)
(* says of key, data and flags.                                              *)
LEMMA TextReadAgain ==
  ASSUME TypesFit, NEW s, s.t = "set", SetGiven(s), Fine(s)
  PROVE  ParseSetText(SetText(SetMsg(s))) = Done(Again(s, Retained(s), FlagsText(s.flags \cup Implied(s), s.timeout)))
  <1> DEFINE x == SetText(SetMsg(s))
             flags == FlagsText(s.flags \cup Implied(s), s.timeout)
             y == Again(s, Retained(s), flags)
             z == [f \in DOMAIN x \ {"typeof"} |-> IF f \in {"timeout", "gc"} THEN TimeParse(x[f]) ELSE x[f]]
  <1>1. /\ DOMAIN x = SetFields \cup {"typeof"} /\ x.t = "set" /\ (x.typeof <=> Retained(s))
        /\ x.key = y.key /\ x.data = y.data /\ x.flags = y.flags /\ x.map = y.map /\ x.obj = y.obj
        /\ (x.dinterval <=> y.dinterval) /\ x.dinterval \in BOOLEAN /\ x.policy = y.policy /\ x.size = y.size
        /\ x.timeout = TimePrint(y.timeout) /\ x.gc = TimePrint(y.gc) /\ x.merge = y.merge /\ x.stmts = y.stmts
        /\ x.comment = y.comment
    BY TextFieldsOf
  <1>2. /\ y = [f \in SetFields |-> y[f]] /\ y.key = Said(s.key, Retained(s)) /\ y.t = s.t
        /\ y.data = (IF s.map = "data" THEN Said(s.data, Retained(s)) ELSE None)
        /\ y.map = s.map /\ y.dinterval = s.dinterval /\ y.timeout = s.timeout /\ y.gc = s.gc /\ y.merge = s.merge /\ y.stmts = s.stmts
    <2> HIDE DEF flags, x
    <2> QED
      BY AgainFields
  <1>3. /\ ValueGiven(s.key) /\ Whole(s.key) /\ s.dinterval \in BOOLEAN /\ {s.timeout, s.gc} \subseteq Nat
        /\ (s.map # "no" => ~s.merge /\ s.stmts = <<>> /\ s.gc = 0)
        /\ (s.map = "data" => DataGiven(s)) /\ (s.map = "obj" => ~Typeof(s.key))
    BY FineKey DEF SetGiven
  <1>4. (Retained(s) => Typeof(s.key)) /\ Retained(s) \in BOOLEAN
    BY DEF Retained
  <1>5. y.key.t # "garbage" /\ (Retained(s) => y.key.t # "value")
    <2>1. Retained(s) \/ AsItsType(s.key)
      BY NotRetained
    <2>2. Said(s.key, Retained(s)).t \in {"value", "payload", "meta", "ct", "concat"}
          /\ (Retained(s) /\ Typeof(s.key) => Said(s.key, Retained(s)).t # "value")
      BY <1>3, <1>4, <2>1, SaidIs
    <2> QED
      BY <1>2, <1>4, <2>2
  <1>6. y.data.t # "garbage" /\ (Retained(s) => y.data.t # "value")
    <2>1. CASE s.map # "data"
      BY <1>2, <2>1 DEF None
    <2>2. CASE s.map = "data" /\ s.data = TypeofVerdict
      <3>1. Retained(s)
        BY <2>2, NotRetained
      <3>2. s.data.t = "verdict"
        BY <2>2 DEF TypeofVerdict, Verdict
      <3>3. y.data = s.data
        BY <1>2, <2>2, <3>1, <3>2 DEF Said, KnownValue
      <3> QED
        BY <3>2, <3>3
    <2>3. CASE s.map = "data" /\ s.data # TypeofVerdict
      <3>1. Retained(s) \/ AsItsType(s.data)
        BY <2>3, NotRetained
      <3>2. ValueGiven(s.data) /\ Whole(s.data)
        BY <2>3, FineData
      <3>3. Retained(s) => Typeof(s.data)
        BY <1>3, <1>4, <2>3 DEF DataGiven, TypeofData
      <3>4. Said(s.data, Retained(s)).t \in {"value", "payload", "meta", "ct", "concat"}
            /\ (Retained(s) /\ Typeof(s.data) => Said(s.data, Retained(s)).t # "value")
        BY <1>4, <3>1, <3>2, SaidIs
      <3> QED
        BY <1>2, <2>3, <3>3, <3>4
    <2> QED
      BY <2>1, <2>2, <2>3
  <1>7. TimeParse(TimePrint(y.timeout)) = y.timeout /\ TimeParse(TimePrint(y.gc)) = y.gc
    BY <1>2, <1>3, TimeReadBack
  <1> HIDE DEF x, y, z
  <1>8. ParseSetText(x) = Done(z)
    <2>1. "garbage" \notin {x.key.t, x.data.t} /\ ~(x.typeof /\ "value" \in {x.key.t, x.data.t})
      BY <1>1, <1>5, <1>6
    <2>2. ~(x.typeof /\ x.map = "obj")
      BY <1>1, <1>2, <1>3, <1>4
    <2>3. ~(x.map # "no" /\ (x.merge \/ x.stmts # <<>> \/ TimeParse(x.gc) # 0))
      BY <1>1, <1>2, <1>3, <1>7
    <2> QED
      BY <2>1, <2>2, <2>3 DEF ParseSetText, z
  <1>9. z = y
    <2>1. DOMAIN z = SetFields
      BY <1>1 DEF z, SetFields
    <2>2. z = [f \in DOMAIN z |-> z[f]]
      BY DEF z
    <2>3. /\ z.t = x.t /\ z.key = x.key /\ z.map = x.map /\ z.data = x.data /\ z.dinterval = x.dinterval /\ z.obj = x.obj
          /\ z.flags = x.flags /\ z.timeout = TimeParse(x.timeout) /\ z.gc = TimeParse(x.gc) /\ z.size = x.size /\ z.policy = x.policy
          /\ z.merge = x.merge /\ z.stmts = x.stmts /\ z.comment = x.comment
      BY <1>1 DEF z, SetFields
    <2>4. x.dinterval = y.dinterval
      BY <1>1, <1>2, <1>3
    <2>5. /\ z.t = y.t /\ z.key = y.key /\ z.map = y.map /\ z.data = y.data /\ z.dinterval = y.dinterval /\ z.obj = y.obj
          /\ z.flags = y.flags /\ z.timeout = y.timeout /\ z.gc = y.gc /\ z.size = y.size /\ z.policy = y.policy
          /\ z.merge = y.merge /\ z.stmts = y.stmts /\ z.comment = y.comment
      BY <1>1, <1>2, <1>7, <2>3, <2>4
    <2>6. \A f \in SetFields : z[f] = y[f]
      BY <2>5 DEF SetFields
    <2> QED
      BY <1>2, <2>1, <2>2, <2>6
  <1> QED
    BY <1>8, <1>9 DEF x, y, flags

(* What is said twice is the same.                                           *)
LEMMA KeySaidTwice ==
  ASSUME TypesFit, NEW s, SetGiven(s), Fine(s), NEW kept, NEW flags, CanSay(s, kept, flags), NEW y, y = Again(s, kept, flags)
  PROVE  Said(y.key, kept) = Said(s.key, kept)
  <1>1. y.key = Said(s.key, kept) /\ LikeValue(Said(s.key, kept), s.key, kept)
    BY AgainFields, KeyLike
  <1>2. kept \in BOOLEAN
    BY DEF CanSay
  <1>3. KnownValue(y.key).dt = KnownValue(s.key).dt /\ (kept => y.key = KnownValue(s.key) /\ KnownValue(y.key) = y.key)
    BY <1>1 DEF LikeValue, SameValue
  <1> QED
    BY <1>2, <1>3 DEF Said

(* So is the data.                                                           *)
LEMMA DataSaidTwice ==
  ASSUME TypesFit, NEW s, SetGiven(s), Fine(s), NEW kept, NEW flags, CanSay(s, kept, flags), NEW y, y = Again(s, kept, flags),
         s.map = "data"
  PROVE  Said(y.data, kept) = Said(s.data, kept)
  <1>1. y.data = Said(s.data, kept)
    BY AgainFields
  <1>2. kept \in BOOLEAN
    BY DEF CanSay
  <1>3. CASE s.data = TypeofVerdict /\ Said(s.data, kept) = s.data
    BY <1>1, <1>3
  <1>4. CASE LikeValue(Said(s.data, kept), s.data, kept)
    <2>1. KnownValue(y.data).dt = KnownValue(s.data).dt /\ (kept => y.data = KnownValue(s.data) /\ KnownValue(y.data) = y.data)
      BY <1>1, <1>4 DEF LikeValue, SameValue
    <2> QED
      BY <1>2, <2>1 DEF Said
  <1> QED
    BY <1>3, <1>4, DataLike

(* The set that is read is listed as it was.                                 *)
LEMMA TextListedAgain ==
  ASSUME TypesFit, NEW s, SetGiven(s), Fine(s), NEW flags, flags = FlagsText(s.flags \cup Implied(s), s.timeout),
         NEW y, y = Again(s, Retained(s), flags)
  PROVE  SetText(SetMsg(y)) = SetText(SetMsg(s))
  <1> DEFINE n == SetMsg(y)
             m == SetMsg(s)
             kept == Retained(s)
  <1>1. CanSay(s, kept, flags)
    BY TextCanSay
  <1>2. SetGiven(y) /\ Fine(y) /\ (Retained(y) <=> kept)
    BY <1>1, GivenAgain
  <1>3. MessageLike(n, m)
    BY <1>1, MessageAgain
  <1>4. y.map = s.map
    BY AgainFields
  <1>5. /\ (KeyTypeof(m) <=> kept) /\ KeyText(m) = Said(s.key, kept)
        /\ DataText(m) = IF s.map = "data" THEN Said(s.data, kept) ELSE None
    BY KeyTypeofIs
  <1>6. /\ (KeyTypeof(n) <=> kept) /\ KeyText(n) = Said(y.key, kept)
        /\ DataText(n) = IF y.map = "data" THEN Said(y.data, kept) ELSE None
    <2>1. kept = Retained(y)
      BY <1>2 DEF Retained
    <2> QED
      BY <1>2, <2>1, KeyTypeofIs
  <1>7. Said(y.key, kept) = Said(s.key, kept) /\ (s.map = "data" => Said(y.data, kept) = Said(s.data, kept))
    BY <1>1, KeySaidTwice, DataSaidTwice
  <1> HIDE DEF n, m, kept
  <1>8. KeyTypeof(n) = KeyTypeof(m)
    <2>1. KeyTypeof(n) \in BOOLEAN /\ KeyTypeof(m) \in BOOLEAN
      BY DEF KeyTypeof, UdataValid
    <2> QED
      BY <1>5, <1>6, <2>1
  <1>9. KeyText(n) = KeyText(m) /\ DataText(n) = DataText(m)
    BY <1>4, <1>5, <1>6, <1>7
  <1>10. SetText(n) = SetText(m)
    BY <1>3, <1>8, <1>9 DEF MessageLike, SetText
  <1> QED
    BY <1>10 DEF n, m

(* A set that is loaded returns from text.                                   *)
LEMMA SetTextReturns ==
  ASSUME TypesFit, NEW fam, NEW s, s.t = "set", SetGiven(s), Fine(s)
  PROVE  Returns(fam, "text", SetMsg(s))
  <1> DEFINE m == SetMsg(s)
             flags == FlagsText(s.flags \cup Implied(s), s.timeout)
             y == Again(s, Retained(s), flags)
             x == SetText(m)
  <1>1. m.t = "set"
    BY DEF SetMsg
  <1>2. x.t = "set"
    BY TextFieldsOf
  <1>3. ParseSetText(x) = Done(y)
    BY TextReadAgain
  <1>4. CanSay(s, Retained(s), flags)
    BY TextCanSay
  <1> HIDE DEF flags
  <1>5. SetGiven(y) /\ Fine(y) /\ y.t = "set"
    BY <1>4, GivenAgain, AgainFields
  <1>6. SetDoes(SetMsg(y)) = SetDoes(m)
    BY <1>4, MessageAgain
  <1>7. SetText(SetMsg(y)) = x
    BY TextListedAgain DEF flags
  <1>8. Loads(fam, y, SetMsg(y)) /\ SetMsg(y).t = "set"
    BY <1>5, SetLoads DEF SetMsg
  <1> HIDE DEF m, y, x
  <1>9. DeclListed(fam, "text", m) = Done(x)
    BY <1>1 DEF DeclListed, ListedText, x
  <1>10. DeclRead("text", x) = Done(y)
    BY <1>2, <1>3 DEF DeclRead, ReadText
  <1>11. DeclListed(fam, "text", SetMsg(y)) = Done(x)
    <2> DEFINE n == SetMsg(y)
    <2> HIDE DEF n
    <2>1. n.t = "set" /\ SetText(n) = x
      BY <1>7, <1>8 DEF n
    <2>2. DeclListed(fam, "text", n) = Done(x)
      BY <2>1 DEF DeclListed, ListedText
    <2> QED
      BY <2>2 DEF n
  <1>12. DeclDoes(SetMsg(y), fam) = DeclDoes(m, fam)
    BY <1>1, <1>6, <1>8 DEF DeclDoes
  <1>13. DeclRead("text", DeclListed(fam, "text", m).stmts) = Done(y)
    BY <1>9, <1>10, Fields
  <1> QED
    BY <1>8, <1>9, <1>11, <1>12, <1>13, Fields DEF Returns, m

-----------------------------------------------------------------------------
(* Sets as JSON.                                                             *)

JsonSet(s) == s.t = "set" /\ SetGiven(s) /\ InJson(s)
SaidFlags(s) == s.flags \cup Timed(s)

(* A set that JSON can say is one of types alone, without statements, and    *)
(* its times are whole seconds.                                              *)
LEMMA JsonSetIs ==
  ASSUME NEW s, JsonSet(s)
  PROVE  /\ "dynamic" \notin s.flags /\ ~s.merge /\ s.stmts = <<>> /\ s.comment = "none" /\ ~s.dinterval
         /\ s.timeout % Second = 0 /\ s.gc % Second = 0 /\ AsItsType(s.key)
         /\ s.map = "data" => s.data.t # "concat" /\ s.data # TypeofVerdict /\ AsItsType(s.data)
  BY DEF JsonSet, InJson

(* JSON says the flag of timeouts beside the timeout.                        *)
LEMMA JsonCanSay ==
  ASSUME NEW s, JsonSet(s), NEW kept \in BOOLEAN, ~kept
  PROVE  CanSay(s, kept, SaidFlags(s)) /\ (s.flags \cup Implied(s)) \cap JsonFlags = SaidFlags(s)
  <1>1. s.flags \subseteq ShownFlags
    BY DEF JsonSet, SetGiven
  <1>2. SaidFlags(s) \subseteq ShownFlags /\ SaidFlags(s) \cup Timed(s) = s.flags \cup Timed(s)
    BY <1>1 DEF SaidFlags, Timed, ShownFlags
  <1>3. (s.flags \cup Implied(s)) \cap JsonFlags = SaidFlags(s)
    BY <1>1, JsonSetIs DEF SaidFlags, Timed, Implied, ShownFlags, JsonFlags
  <1> QED
    BY <1>2, <1>3, JsonSetIs DEF CanSay

(* One field after the other.                                                *)
LEMMA NoFields == DOMAIN <<>> = {}
  OBVIOUS

(* The fields of a set as JSON, some of which are only there when they are   *)
(* not the default (set_print_json()).                                       *)
LEMMA JsonFieldsOf ==
  ASSUME NEW a
  PROVE  LET o == SetJson(a)
             varies == "constant" \notin a.flags
         IN  /\ o.t = "set" /\ o.type = DtypeJson(SetKey(a).dt)
             /\ "map" \in DOMAIN o <=> a.map # "no"
             /\ a.map # "no" => o.map = IF a.map = "obj" THEN a.obj ELSE SetData(a).dt
             /\ "policy" \in DOMAIN o <=> varies /\ a.policy # "performance"
             /\ varies /\ a.policy # "performance" => o.policy = a.policy
             /\ "size" \in DOMAIN o <=> varies /\ a.size # 0
             /\ varies /\ a.size # 0 => o.size = a.size
             /\ "flags" \in DOMAIN o <=> a.flags \cap JsonFlags # {}
             /\ a.flags \cap JsonFlags # {} => o.flags = a.flags \cap JsonFlags
             /\ "timeout" \in DOMAIN o <=> a.timeout # 0
             /\ a.timeout # 0 => o.timeout = a.timeout \div Second
             /\ "gc" \in DOMAIN o <=> a.gc # 0
             /\ a.gc # 0 => o.gc = a.gc \div Second
  <1> DEFINE varies == "constant" \notin a.flags
             type == DtypeJson(SetKey(a).dt)
             what == IF a.map = "obj" THEN a.obj ELSE SetData(a).dt
             shown == a.flags \cap JsonFlags
             time == a.timeout \div Second
             gctime == a.gc \div Second
             p1 == [t |-> "set", type |-> type]
             p2 == p1 ++ (IF a.map = "no" THEN <<>> ELSE [map |-> what])
             p3 == p2 ++ (IF varies /\ a.policy # "performance" THEN [policy |-> a.policy] ELSE <<>>)
             p4 == p3 ++ (IF varies /\ a.size # 0 THEN [size |-> a.size] ELSE <<>>)
             p5 == p4 ++ (IF shown = {} THEN <<>> ELSE [flags |-> shown])
             p6 == p5 ++ (IF a.timeout = 0 THEN <<>> ELSE [timeout |-> time])
             p7 == p6 ++ (IF a.gc = 0 THEN <<>> ELSE [gc |-> gctime])
  <1>1. SetJson(a) = p7
    BY DEF SetJson
  <1> HIDE DEF type, what, shown, time, gctime
  <1>2. DOMAIN p1 = {"t", "type"} /\ p1.t = "set" /\ p1.type = type
    OBVIOUS
  <1> HIDE DEF p1
  <1>3. DOMAIN p2 = {"t", "type"} \cup (IF a.map # "no" THEN {"map"} ELSE {})
        /\ p2.t = "set" /\ p2.type = type /\ (a.map # "no" => p2.map = what)
    BY <1>2, NoFields DEF ++
  <1> HIDE DEF p2
  <1>4. DOMAIN p3 = DOMAIN p2 \cup (IF varies /\ a.policy # "performance" THEN {"policy"} ELSE {})
        /\ (\A f \in DOMAIN p2 : p3[f] = p2[f]) /\ (varies /\ a.policy # "performance" => p3.policy = a.policy)
    BY <1>3, NoFields DEF ++
  <1> HIDE DEF p3
  <1>5. DOMAIN p4 = DOMAIN p3 \cup (IF varies /\ a.size # 0 THEN {"size"} ELSE {})
        /\ (\A f \in DOMAIN p3 : p4[f] = p3[f]) /\ (varies /\ a.size # 0 => p4.size = a.size)
    BY <1>3, <1>4, NoFields DEF ++
  <1> HIDE DEF p4
  <1>6. DOMAIN p5 = DOMAIN p4 \cup (IF shown # {} THEN {"flags"} ELSE {})
        /\ (\A f \in DOMAIN p4 : p5[f] = p4[f]) /\ (shown # {} => p5.flags = shown)
    BY <1>3, <1>4, <1>5, NoFields DEF ++
  <1> HIDE DEF p5
  <1>7. DOMAIN p6 = DOMAIN p5 \cup (IF a.timeout # 0 THEN {"timeout"} ELSE {})
        /\ (\A f \in DOMAIN p5 : p6[f] = p5[f]) /\ (a.timeout # 0 => p6.timeout = time)
    BY <1>3, <1>4, <1>5, <1>6, NoFields DEF ++
  <1> HIDE DEF p6
  <1>8. DOMAIN p7 = DOMAIN p6 \cup (IF a.gc # 0 THEN {"gc"} ELSE {})
        /\ (\A f \in DOMAIN p6 : p7[f] = p6[f]) /\ (a.gc # 0 => p7.gc = gctime)
    BY <1>3, <1>4, <1>5, <1>6, <1>7, NoFields DEF ++
  <1> HIDE DEF p7
  <1>9. p7.t = "set" /\ p7.type = type
    BY <1>3, <1>4, <1>5, <1>6, <1>7, <1>8
  <1>10. ("map" \in DOMAIN p7 <=> a.map # "no") /\ (a.map # "no" => p7.map = what)
    BY <1>3, <1>4, <1>5, <1>6, <1>7, <1>8
  <1>11. ("policy" \in DOMAIN p7 <=> varies /\ a.policy # "performance") /\ (varies /\ a.policy # "performance" => p7.policy = a.policy)
    BY <1>3, <1>4, <1>5, <1>6, <1>7, <1>8
  <1>12. ("size" \in DOMAIN p7 <=> varies /\ a.size # 0) /\ (varies /\ a.size # 0 => p7.size = a.size)
    BY <1>3, <1>4, <1>5, <1>6, <1>7, <1>8
  <1>13. ("flags" \in DOMAIN p7 <=> shown # {}) /\ (shown # {} => p7.flags = shown)
    BY <1>3, <1>4, <1>5, <1>6, <1>7, <1>8
  <1>14. ("timeout" \in DOMAIN p7 <=> a.timeout # 0) /\ (a.timeout # 0 => p7.timeout = time)
    BY <1>3, <1>4, <1>5, <1>6, <1>7, <1>8
  <1>15. ("gc" \in DOMAIN p7 <=> a.gc # 0) /\ (a.gc # 0 => p7.gc = gctime)
    BY <1>3, <1>4, <1>5, <1>6, <1>7, <1>8
  <1> HIDE DEF varies
  <1> QED
    BY <1>1, <1>9, <1>10, <1>11, <1>12, <1>13, <1>14, <1>15 DEF type, what, shown, time, gctime, varies

(* The names of types, read again.                                           *)
LEMMA DtypeReadBack ==
  ASSUME TypesFit, NEW e, ValueGiven(e), Whole(e), NEW kept \in BOOLEAN, ~kept
  PROVE  ParseDtypeJson(DtypeJson(KnownValue(e).dt)) = Said(e, kept)
  <1> DEFINE dt == KnownValue(e).dt
  <1>1. Said(e, kept) = TypeExpr(dt)
    BY DEF Said
  <1>2. CASE e.t = "concat"
    <2>1. ConcatGiven(e) /\ AllSized(e) /\ dt = ConcatOf(e.es).dt
      BY <1>2 DEF ValueGiven, Whole, KnownValue
    <2> HIDE DEF dt
    <2>2. dt \in DOMAIN Concats /\ Concats[dt] = PartTypes(e)
      BY <2>1, ConcatTypes
    <2>3. Len(Concats[dt]) # 1
      <3>1. Len(e.es) \in Nat /\ Len(e.es) > 1 /\ DOMAIN e.es = 1 .. Len(e.es)
        BY <2>1, ConcatParts
      <3>2. DOMAIN PartTypes(e) = 1 .. Len(e.es)
        BY <3>1 DEF PartTypes
      <3>3. PartTypes(e) = [i \in 1 .. Len(e.es) |-> PartTypes(e)[i]]
        BY <3>1 DEF PartTypes
      <3>4. Len(PartTypes(e)) = Len(e.es)
        BY <3>1, <3>2, <3>3
      <3>5. Len(e.es) # 1
        <4> DEFINE n == Len(e.es)
        <4>1. n \in Nat /\ n > 1
          BY <3>1
        <4> HIDE DEF n
        <4>2. n # 1
          BY <4>1
        <4> QED
          BY <4>2 DEF n
      <3>6. Len(Concats[dt]) = Len(e.es)
        BY <2>2, <3>4, Zenon
      <3> QED
        BY <3>5, <3>6, Zenon
    <2>4. DtypeJson(dt) = Concats[dt]
      BY <2>2 DEF DtypeJson
    <2> QED
      BY <1>1, <2>2, <2>3, <2>4 DEF ParseDtypeJson, TypeExpr, dt
  <1>3. CASE e.t # "concat"
    <2>1. dt = e.dt /\ e.dt \in DOMAIN Types
      BY <1>3, PartIs DEF KnownValue, ValueGiven
    <2> HIDE DEF dt
    <2>2. dt \notin DOMAIN Concats
      BY <2>1 DEF TypesFit
    <2>3. DtypeJson(dt) = <<dt>>
      BY <2>2 DEF DtypeJson
    <2>4. ParseDtypeJson(<<dt>>) = OfType(dt)
      BY DEF ParseDtypeJson
    <2> QED
      BY <1>1, <2>2, <2>3, <2>4 DEF TypeExpr, dt
  <1> QED
    BY <1>2, <1>3

(* What the JSON parser reads of them is the set it was                      *)
(* (json_parse_cmd_add_set()).                                               *)
LEMMA JsonReadAgain ==
  ASSUME TypesFit, NEW s, JsonSet(s), Fine(s), NEW kept \in BOOLEAN, ~kept
  PROVE  ParseSetJson(SetJson(SetMsg(s))) = Done(Again(s, kept, SaidFlags(s)))
  <1> DEFINE m == SetMsg(s)
             o == SetJson(m)
             y == Again(s, kept, SaidFlags(s))
             varies == "constant" \notin m.flags
  <1>1. /\ m.map = s.map /\ m.obj = s.obj /\ m.flags = s.flags \cup Implied(s) /\ m.timeout = s.timeout /\ m.gc = s.gc
        /\ m.policy = s.policy /\ m.size = s.size
    BY DEF SetMsg
  <1>2. /\ y = [f \in SetFields |-> y[f]] /\ y.key = Said(s.key, kept) /\ y.flags = SaidFlags(s)
        /\ y.data = (IF s.map = "data" THEN Said(s.data, kept) ELSE None)
        /\ y.t = s.t /\ y.map = s.map /\ y.dinterval = s.dinterval /\ y.obj = s.obj /\ y.timeout = s.timeout /\ y.gc = s.gc
        /\ y.size = s.size /\ y.policy = s.policy /\ y.merge = s.merge /\ y.stmts = s.stmts /\ y.comment = s.comment
    BY AgainFields DEF JsonSet
  <1>3. /\ ValueGiven(s.key) /\ Whole(s.key) /\ {s.dinterval, s.merge} \subseteq BOOLEAN /\ {s.timeout, s.gc} \subseteq Nat
        /\ s.map \in {"no", "data", "obj"} /\ s.t = "set"
        /\ ("constant" \in s.flags => s.size = 0 /\ s.policy = "performance")
        /\ (s.map = "data" => s.obj = "none") /\ (s.map = "no" => s.obj = "none")
        /\ (s.map = "obj" => s.obj \in MapObjects) /\ (s.map # "data" => s.data = None)
    BY FineKey DEF JsonSet, SetGiven
  <1>4. /\ ~s.merge /\ s.stmts = <<>> /\ s.comment = "none" /\ ~s.dinterval
        /\ s.timeout % Second = 0 /\ s.gc % Second = 0
        /\ (s.map = "data" => s.data.t # "concat" /\ s.data # TypeofVerdict /\ AsItsType(s.data))
    BY JsonSetIs
  <1>5. m.flags \cap JsonFlags = SaidFlags(s)
    BY <1>1, JsonCanSay
  <1>6. "constant" \in m.flags => s.size = 0 /\ s.policy = "performance"
    BY <1>1, <1>3, ImpliedFlags
  <1>7. SetKey(m).dt = KnownValue(s.key).dt
    BY KeyTypeofIs DEF JsonSet
  <1>8. ASSUME s.map = "data"
        PROVE  /\ SetData(m).dt = s.data.dt /\ s.data.dt \in DOMAIN Types /\ s.data.dt \notin MapObjects
               /\ OfType(s.data.dt) = Said(s.data, kept)
    <2>1. SetGiven(s) /\ s.data # TypeofVerdict /\ s.data.t # "concat" /\ ~s.dinterval
      BY <1>4, <1>8 DEF JsonSet
    <2>2. SetData(m).dt = KnownData(s).dt
      BY <1>8, <2>1, DataTypeofIs
    <2>3. PartGiven(s.data)
      BY <1>8, <2>1, FineData DEF ValueGiven
    <2>4. KnownData(s).dt = s.data.dt
      <3>1. KnownData(s) = [s.data EXCEPT !.len = @]
        BY <1>8, <2>1 DEF KnownData
      <3>2. "dt" \in DOMAIN s.data
        BY <2>3, PartFields
      <3> QED
        BY <3>1, <3>2
    <2>5. s.data.dt \in DOMAIN Types
      BY <2>3, PartIs
    <2>6. s.data.dt \notin MapObjects /\ s.data.dt \notin DOMAIN Concats
      BY <2>5 DEF TypesFit
    <2>7. Said(s.data, kept) = OfType(s.data.dt)
      BY <2>1, <2>6 DEF Said, KnownValue, TypeExpr
    <2> QED
      BY <2>2, <2>4, <2>5, <2>6, <2>7
  <1> HIDE DEF m, y
  <1>9. /\ o.type = DtypeJson(SetKey(m).dt)
        /\ ("map" \in DOMAIN o <=> m.map # "no")
        /\ (m.map # "no" => o.map = IF m.map = "obj" THEN m.obj ELSE SetData(m).dt)
        /\ ("policy" \in DOMAIN o <=> varies /\ m.policy # "performance")
        /\ (varies /\ m.policy # "performance" => o.policy = m.policy)
        /\ ("size" \in DOMAIN o <=> varies /\ m.size # 0)
        /\ (varies /\ m.size # 0 => o.size = m.size)
        /\ ("flags" \in DOMAIN o <=> m.flags \cap JsonFlags # {})
        /\ (m.flags \cap JsonFlags # {} => o.flags = m.flags \cap JsonFlags)
        /\ ("timeout" \in DOMAIN o <=> m.timeout # 0)
        /\ (m.timeout # 0 => o.timeout = m.timeout \div Second)
        /\ ("gc" \in DOMAIN o <=> m.gc # 0)
        /\ (m.gc # 0 => o.gc = m.gc \div Second)
    BY JsonFieldsOf
  <1> HIDE DEF o
  <1> DEFINE map == IF "map" \notin DOMAIN o THEN "no" ELSE IF o.map \in MapObjects THEN "obj" ELSE "data"
             key == ParseDtypeJson(o.type)
             obj == IF map = "obj" THEN o.map ELSE "none"
             data == IF map = "data" THEN OfType(o.map) ELSE None
             flags == IF "flags" \in DOMAIN o THEN o.flags ELSE {}
             policy == IF "policy" \in DOMAIN o THEN o.policy ELSE "performance"
             size == IF "size" \in DOMAIN o THEN o.size ELSE 0
             timeout == Seconds(o, "timeout")
             gc == Seconds(o, "gc")
             z == [t |-> "set", key |-> key, map |-> map, obj |-> obj, data |-> data, dinterval |-> FALSE, flags |-> flags,
                   policy |-> policy, size |-> size, timeout |-> timeout, gc |-> gc, merge |-> FALSE, stmts |-> <<>>,
                   comment |-> "none"]
  <1>10. ParseSetJson(o) = IF map = "data" /\ o.map \notin DOMAIN Types THEN Refused ELSE Done(z)
    BY DEF ParseSetJson
  <1>11. map = s.map /\ (s.map = "obj" => o.map = s.obj) /\ (s.map = "data" => o.map = s.data.dt)
    <2>1. CASE s.map = "no"
      BY <1>1, <1>9, <2>1
    <2>2. CASE s.map = "obj"
      BY <1>1, <1>3, <1>9, <2>2
    <2>3. CASE s.map = "data"
      BY <1>1, <1>8, <1>9, <2>3
    <2> QED
      BY <1>3, <2>1, <2>2, <2>3
  <1> HIDE DEF map
  <1>12. ParseSetJson(o) = Done(z)
    BY <1>8, <1>10, <1>11
  <1>13. /\ DOMAIN z = SetFields /\ z.t = "set" /\ z.key = ParseDtypeJson(o.type) /\ z.map = map
         /\ z.obj = (IF map = "obj" THEN o.map ELSE "none") /\ z.data = (IF map = "data" THEN OfType(o.map) ELSE None)
         /\ z.dinterval = FALSE /\ z.merge = FALSE /\ z.stmts = <<>> /\ z.comment = "none"
         /\ z.flags = (IF "flags" \in DOMAIN o THEN o.flags ELSE {})
         /\ z.policy = (IF "policy" \in DOMAIN o THEN o.policy ELSE "performance")
         /\ z.size = (IF "size" \in DOMAIN o THEN o.size ELSE 0)
         /\ z.timeout = Seconds(o, "timeout") /\ z.gc = Seconds(o, "gc")
         /\ z = [f \in DOMAIN z |-> z[f]]
    <2> HIDE DEF key, obj, data, flags, policy, size, timeout, gc
    <2>1. DOMAIN z = SetFields
      BY DEF SetFields
    <2>2. z.t = "set" /\ z.key = key /\ z.map = map /\ z.obj = obj /\ z.data = data
      OBVIOUS
    <2>3. z.dinterval = FALSE /\ z.merge = FALSE /\ z.stmts = <<>> /\ z.comment = "none"
      OBVIOUS
    <2>4. z.flags = flags /\ z.policy = policy /\ z.size = size /\ z.timeout = timeout /\ z.gc = gc
      OBVIOUS
    <2>5. z = [f \in DOMAIN z |-> z[f]]
      OBVIOUS
    <2> HIDE DEF z
    <2> QED
      BY <2>1, <2>2, <2>3, <2>4, <2>5 DEF key, obj, data, flags, policy, size, timeout, gc
  <1> HIDE DEF z
  <1>14. z.key = y.key
    <2>1. ParseDtypeJson(DtypeJson(KnownValue(s.key).dt)) = Said(s.key, kept)
      BY <1>3, DtypeReadBack
    <2> QED
      BY <1>2, <1>7, <1>9, <1>13, <2>1
  <1>15. z.data = y.data /\ z.obj = y.obj /\ z.map = y.map
    <2>1. CASE s.map = "no"
      BY <1>2, <1>3, <1>11, <1>13, <2>1
    <2>2. CASE s.map = "obj"
      BY <1>2, <1>3, <1>11, <1>13, <2>2
    <2>3. CASE s.map = "data"
      BY <1>2, <1>3, <1>8, <1>11, <1>13, <2>3
    <2> QED
      BY <1>3, <2>1, <2>2, <2>3
  <1>16. z.flags = y.flags
    BY <1>2, <1>5, <1>9, <1>13
  <1>17. z.policy = y.policy /\ z.size = y.size
    BY <1>1, <1>2, <1>6, <1>9, <1>13
  <1>18. z.timeout = y.timeout /\ z.gc = y.gc
    <2>1. ASSUME NEW n \in Nat, n % Second = 0, NEW g \in {"timeout", "gc"},
                 g \in DOMAIN o <=> n # 0, n # 0 => o[g] = n \div Second
          PROVE  Seconds(o, g) = n
      <3>1. (n \div Second) * Second = n
        BY <2>1, Exact DEF Second
      <3> QED
        BY <2>1, <3>1 DEF Seconds
    <2>2. Seconds(o, "timeout") = s.timeout
      BY <1>1, <1>3, <1>4, <1>9, <2>1
    <2>3. Seconds(o, "gc") = s.gc
      BY <1>1, <1>3, <1>4, <1>9, <2>1
    <2> QED
      BY <1>2, <1>13, <2>2, <2>3
  <1>19. z.t = y.t /\ z.stmts = y.stmts /\ z.comment = y.comment
    BY <1>2, <1>3, <1>4, <1>13
  <1>20. z.dinterval = y.dinterval /\ z.merge = y.merge
    <2>1. s.dinterval = FALSE /\ s.merge = FALSE
      BY <1>3, <1>4
    <2> QED
      BY <1>2, <1>13, <2>1
  <1>21. z = y
    <2>1. \A f \in SetFields : z[f] = y[f]
      BY <1>14, <1>15, <1>16, <1>17, <1>18, <1>19, <1>20 DEF SetFields
    <2> QED
      BY <1>2, <1>13, <2>1
  <1> QED
    BY <1>12, <1>21 DEF m, o, y

(* The set that is read is printed as it was.                                *)
LEMMA JsonListedAgain ==
  ASSUME TypesFit, NEW s, JsonSet(s), Fine(s), NEW kept \in BOOLEAN, ~kept, NEW y, y = Again(s, kept, SaidFlags(s))
  PROVE  SetJson(SetMsg(y)) = SetJson(SetMsg(s))
  <1> DEFINE n == SetMsg(y)
             m == SetMsg(s)
  <1>1. CanSay(s, kept, SaidFlags(s)) /\ SetGiven(s)
    BY JsonCanSay DEF JsonSet
  <1>2. SetGiven(y) /\ Fine(y) /\ SameValue(KnownData(y), KnownData(s))
    BY <1>1, GivenAgain
  <1>3. MessageLike(n, m)
    BY <1>1, MessageAgain
  <1>4. SetKey(n).dt = KnownValue(y.key).dt /\ SetKey(m).dt = KnownValue(s.key).dt
    BY <1>1, <1>2, KeyTypeofIs
  <1>5. KnownValue(y.key).dt = KnownValue(s.key).dt
    BY <1>1, KeyAgain DEF SameValue
  <1>6. y.map = s.map /\ n.map = s.map
    BY <1>1, AgainFields DEF SetMsg
  <1>7. ASSUME s.map = "data" PROVE SetData(n).dt = SetData(m).dt
    <2>1. s.data # TypeofVerdict
      BY <1>7, JsonSetIs
    <2>2. y.data # TypeofVerdict
      <3>1. ~TypeofData(y.data)
        BY <1>1, <1>7, DataAgain
      <3> QED
        BY <3>1 DEF TypeofData
    <2>3. SetData(n).dt = KnownData(y).dt
      BY <1>2, <1>6, <1>7, <2>2, DataTypeofIs
    <2>4. SetData(m).dt = KnownData(s).dt
      BY <1>1, <1>7, <2>1, DataTypeofIs
    <2> QED
      BY <1>2, <2>3, <2>4 DEF SameValue
  <1>8. m.map = s.map /\ s.map \in {"no", "data", "obj"}
    BY <1>1 DEF SetMsg, SetGiven
  <1> HIDE DEF n, m
  <1>9. SetKey(n).dt = SetKey(m).dt
    BY <1>4, <1>5
  <1>10. (IF n.map = "obj" THEN n.obj ELSE SetData(n).dt) = (IF m.map = "obj" THEN m.obj ELSE SetData(m).dt) \/ s.map = "no"
    BY <1>3, <1>6, <1>7, <1>8 DEF MessageLike
  <1>11. SetJson(n) = SetJson(m)
    <2>1. CASE s.map = "no"
      BY <1>3, <1>6, <1>8, <1>9, <2>1 DEF MessageLike, SetJson
    <2>2. CASE s.map = "obj"
      BY <1>3, <1>6, <1>8, <1>9, <2>2 DEF MessageLike, SetJson
    <2>3. CASE s.map = "data"
      BY <1>3, <1>6, <1>7, <1>8, <1>9, <2>3 DEF MessageLike, SetJson
    <2> QED
      BY <1>8, <2>1, <2>2, <2>3
  <1> QED
    BY <1>11 DEF n, m

(* A set that JSON can say returns from JSON.                                *)
LEMMA SetJsonReturns ==
  ASSUME TypesFit, NEW fam, NEW s, JsonSet(s), Fine(s), NEW kept \in BOOLEAN, ~kept
  PROVE  Returns(fam, "json", SetMsg(s))
  <1> DEFINE m == SetMsg(s)
             y == Again(s, kept, SaidFlags(s))
             x == SetJson(m)
  <1>1. m.t = "set" /\ SetGiven(s) /\ s.t = "set"
    BY DEF SetMsg, JsonSet
  <1>2. x.t = "set"
    BY JsonFieldsOf
  <1>3. ParseSetJson(x) = Done(y)
    BY JsonReadAgain
  <1>4. CanSay(s, kept, SaidFlags(s))
    BY JsonCanSay
  <1>5. SetGiven(y) /\ Fine(y) /\ y.t = "set"
    BY <1>1, <1>4, GivenAgain, AgainFields
  <1>6. SetDoes(SetMsg(y)) = SetDoes(m)
    BY <1>1, <1>4, MessageAgain
  <1>7. SetJson(SetMsg(y)) = x
    BY JsonListedAgain
  <1>8. Loads(fam, y, SetMsg(y)) /\ SetMsg(y).t = "set"
    BY <1>5, SetLoads DEF SetMsg
  <1> HIDE DEF m, y, x
  <1>9. DeclListed(fam, "json", m) = Done(x)
    BY <1>1 DEF DeclListed, ListedJson, x
  <1>10. DeclRead("json", x) = Done(y)
    BY <1>2, <1>3 DEF DeclRead, ReadJson
  <1>11. DeclListed(fam, "json", SetMsg(y)) = Done(x)
    <2> DEFINE n == SetMsg(y)
    <2> HIDE DEF n
    <2>1. n.t = "set" /\ SetJson(n) = x
      BY <1>7, <1>8 DEF n
    <2>2. DeclListed(fam, "json", n) = Done(x)
      BY <2>1 DEF DeclListed, ListedJson
    <2> QED
      BY <2>2 DEF n
  <1>12. DeclDoes(SetMsg(y), fam) = DeclDoes(m, fam)
    BY <1>1, <1>6, <1>8 DEF DeclDoes
  <1>13. DeclRead("json", DeclListed(fam, "json", m).stmts) = Done(y)
    BY <1>9, <1>10, Fields
  <1> QED
    BY <1>8, <1>9, <1>11, <1>12, <1>13, Fields DEF Returns, m

(* So a set goes through, whatever it is.                                    *)
LEMMA SetGoes ==
  ASSUME TypesFit, NEW fam, NEW how, NEW d, d.t = "set", SetGiven(d), Told(how, d)
  PROVE  GoesThrough(fam, how, d)
  <1>1. CASE Fine(d)
    <2>1. Loads(fam, d, SetMsg(d))
      BY <1>1, SetLoads
    <2>2. CASE how = "text"
      <3>1. Returns(fam, "text", SetMsg(d))
        BY <1>1, SetTextReturns
      <3> QED
        BY <2>1, <2>2, <3>1, LoadedGoes
    <2>3. CASE how = "json" /\ InJson(d)
      <3>1. JsonSet(d)
        BY <2>3 DEF JsonSet
      <3>2. PICK kept \in BOOLEAN : ~kept
        OBVIOUS
      <3>3. Returns(fam, "json", SetMsg(d))
        BY <1>1, <3>1, <3>2, SetJsonReturns
      <3> QED
        BY <2>1, <2>3, <3>3, LoadedGoes
    <2> QED
      BY <2>2, <2>3 DEF Told
  <1>2. CASE ~Fine(d)
    <2>1. EvaluateSet(d) = Refused
      BY <1>2, SetEvaluated DEF SetGiven
    <2>2. DeclEvaluated(fam, d) = Refused
      BY <2>1, Fields DEF DeclEvaluated
    <2> QED
      BY <2>2, RefusedGoes
  <1> QED
    BY <1>1, <1>2

-----------------------------------------------------------------------------
(* From declarations to the behaviours of the rule path.                     *)

(* The way through the program, whatever the passes are.                     *)

(* What a rule is evaluated to is sent and does what the rule says; and what *)
(* is listed of it says the same, is loaded again, does the same and is      *)
(* listed as it was.                                                         *)
Sent(fam, d) ==
  LET given == Evaluated(fam, d)
      sent == Generated(given.stmts)
  IN  /\ given.err # "BUG"
      /\ given.err = "none" =>
           /\ sent.err # "BUG" /\ sent.low = 0
           /\ \A P \in PacketsOf(fam, d) : Acts(sent.out, P) = Says(d, P)
Back(fam, how, d) ==
  LET given == Evaluated(fam, d)
      sent == Generated(given.stmts)
      shown == Listed(fam, how, sent.out)
      read == Read(how, shown.stmts)
      back == Evaluated(fam, read.stmts)
      second == Generated(back.stmts)
  IN  given.err = "none" =>
        /\ shown.err = "none" /\ read.err = "none" /\ back.err = "none"
        /\ second.err = "none" /\ second.low = 0
        /\ \A P \in PacketsOf(fam, d) : Says(read.stmts, P) = Acts(sent.out, P) /\ Acts(second.out, P) = Acts(sent.out, P)
        /\ Listed(fam, how, second.out) = shown
Carried == \A fam \in DOMAIN Rules : \A d \in Rules[fam] : Sent(fam, d) /\ \A how \in FormatsOf(fam, d) : Back(fam, how, d)

(* How far a rule has come says what there is of it.                         *)
Reloaded(fam, how, shown) ==
  LET read == Read(how, shown.stmts)
      r == IF read.err = "none" THEN Evaluated(fam, read.stmts) ELSE read
  IN  IF r.err = "none" THEN Generated(r.stmts) ELSE [NoProgram EXCEPT !.err = r.err]
PathInv ==
  /\ family \in DOMAIN Rules /\ rule \in Rules[family]
  /\ phase \in {"given", "refused", "evaluated", "loaded", "listed", "reloaded"}
  /\ evaluated = (IF phase = "given" THEN Nothing ELSE Evaluated(family, rule))
  /\ phase \notin {"given", "refused"} => evaluated.err = "none"
  /\ program = (IF phase \in {"loaded", "listed", "reloaded"} THEN Generated(evaluated.stmts) ELSE NoProgram)
  /\ IF phase \in {"listed", "reloaded"}
     THEN format \in FormatsOf(family, rule) /\ listing = Listed(family, format, program.out)
     ELSE listing = Nothing
  /\ again = (IF phase = "reloaded" THEN Reloaded(family, format, listing) ELSE NoProgram)

(* A rule of the rule path is at every stage what the passes before made of  *)
(* it, when all passes carry all rules.                                      *)
LEMMA PathInvHolds == Spec => []PathInv
  <1>1. Init => PathInv
    BY DEF Init, PathInv
  <1>2. PathInv /\ [Next]_vars => PathInv'
    <2> SUFFICES ASSUME PathInv, [Next]_vars PROVE PathInv'
      OBVIOUS
    <2>1. CASE Evaluate
      BY <2>1 DEF PathInv, Evaluate
    <2>2. CASE Generate
      BY <2>2 DEF PathInv, Generate
    <2>3. CASE ListRule
      BY <2>3 DEF PathInv, ListRule
    <2>4. CASE Reload
      <3>1. again' = Reloaded(family, format, listing)
        BY <2>4 DEF Reload, Reloaded
      <3> QED
        BY <2>4, <3>1 DEF PathInv, Reload
    <2>5. CASE UNCHANGED vars
      BY <2>5 DEF PathInv, vars
    <2> QED
      BY <2>1, <2>2, <2>3, <2>4, <2>5 DEF Next
  <1> QED
    BY <1>1, <1>2, PTL DEF Spec

(* So the rule path has its five properties.                                 *)
LEMMA PathIsRight ==
  ASSUME Carried, PathInv
  PROVE  NoBug /\ SaysWhatItDoes /\ ListsWhatItDoes /\ LoadsAgain /\ ListsTheSame
  <1> DEFINE given == Evaluated(family, rule)
             sent == Generated(given.stmts)
             shown == Listed(family, format, sent.out)
             read == Read(format, shown.stmts)
             back == Evaluated(family, read.stmts)
  <1>1. Sent(family, rule)
    BY DEF Carried, PathInv
  <1>2. phase \notin {"given", "refused"} => evaluated = given /\ given.err = "none"
    BY DEF PathInv
  <1>3. phase \in {"loaded", "listed", "reloaded"} =>
          /\ program = sent /\ sent.err # "BUG" /\ sent.low = 0
          /\ \A P \in PacketsOf(family, rule) : Acts(sent.out, P) = Says(rule, P)
    BY <1>1, <1>2 DEF PathInv, Sent
  <1>4. phase \in {"listed", "reloaded"} =>
          /\ listing = shown
          /\ shown.err = "none" /\ read.err = "none" /\ back.err = "none"
          /\ Generated(back.stmts).err = "none" /\ Generated(back.stmts).low = 0
          /\ \A P \in PacketsOf(family, rule) : /\ Says(read.stmts, P) = Acts(sent.out, P)
                                               /\ Acts(Generated(back.stmts).out, P) = Acts(sent.out, P)
          /\ Listed(family, format, Generated(back.stmts).out) = shown
    <2> SUFFICES ASSUME phase \in {"listed", "reloaded"} PROVE Back(family, format, rule) /\ listing = shown
      BY <1>2 DEF Back
    <2> QED
      BY <1>3 DEF Carried, PathInv
  <1>5. phase = "reloaded" => again = Generated(back.stmts)
    BY <1>4 DEF PathInv, Reloaded
  <1>6. NoProgram.err = "none" /\ NoProgram.low = 0 /\ Nothing.err = "none"
    BY DEF NoProgram, Nothing
  <1>7. evaluated.err # "BUG"
    BY <1>1, <1>6 DEF PathInv, Sent
  <1>8. program.err # "BUG" /\ program.low = 0
    BY <1>3, <1>6 DEF PathInv
  <1>9. listing.err # "BUG"
    BY <1>4, <1>6 DEF PathInv
  <1>10. again.err # "BUG" /\ again.low = 0
    BY <1>4, <1>5, <1>6 DEF PathInv
  <1> HIDE DEF given, sent, shown, read, back
  <1>11. NoBug
    BY <1>7, <1>8, <1>9, <1>10 DEF NoBug
  <1>12. SaysWhatItDoes
    BY <1>3 DEF SaysWhatItDoes
  <1>13. ListsWhatItDoes
    BY <1>3, <1>4 DEF ListsWhatItDoes, read
  <1>14. LoadsAgain
    BY <1>3, <1>4, <1>5 DEF LoadsAgain
  <1>15. ListsTheSame
    BY <1>4, <1>5 DEF ListsTheSame
  <1> QED
    BY <1>11, <1>12, <1>13, <1>14, <1>15

(* The rule path of the declarations: its passes are those of declarations,  *)
(* what it has for a packet is the family of the table, its types fit each   *)
(* other, and what it is given is what the grammar can say and the program   *)
(* brings back (Given), as text, and as JSON where JSON can say it (InJson). *)
DeclPath ==
  /\ TypesFit
  /\ \A fam, d : Evaluated(fam, d) = DeclEvaluated(fam, d) /\ PacketsOf(fam, d) = {fam}
  /\ \A d : Generated(d) = DeclGenerated(d)
  /\ \A fam, how, m : Listed(fam, how, m) = DeclListed(fam, how, m)
  /\ \A how, x : Read(how, x) = DeclRead(how, x)
  /\ \A d, fam : Says(d, fam) = DeclMeans(d, fam) /\ Acts(d, fam) = DeclDoes(d, fam)
  /\ \A fam \in DOMAIN Rules : fam \in AllFamilies /\ \A d \in Rules[fam] :
       /\ Given(d)
       /\ \A how \in FormatsOf(fam, d) : how = "text" \/ (how = "json" /\ InJson(d))

(* Each declaration goes through.                                            *)
LEMMA GivenGoes ==
  ASSUME TypesFit, NEW fam \in AllFamilies, NEW how, NEW d, Given(d), Told(how, d)
  PROVE  GoesThrough(fam, how, d)
  BY TableGoes, ChainGoes, FlowtableGoes, ObjectGoes, SetGoes DEF Given

(* So every declaration is carried.                                          *)
LEMMA EveryDeclarationCarried == ASSUME DeclPath PROVE Carried
  <1> SUFFICES ASSUME NEW fam \in DOMAIN Rules, NEW d \in Rules[fam]
               PROVE  Sent(fam, d) /\ \A how \in FormatsOf(fam, d) : Back(fam, how, d)
    BY DEF Carried
  <1>1. fam \in AllFamilies /\ Given(d) /\ TypesFit
    BY DEF DeclPath
  <1>2. /\ \A x : Evaluated(fam, x) = DeclEvaluated(fam, x) /\ Generated(x) = DeclGenerated(x)
        /\ PacketsOf(fam, d) = {fam}
        /\ \A x, how : Read(how, x) = DeclRead(how, x) /\ Listed(fam, how, x) = DeclListed(fam, how, x)
        /\ \A x : Says(x, fam) = DeclMeans(x, fam) /\ Acts(x, fam) = DeclDoes(x, fam)
    BY DEF DeclPath
  <1> DEFINE given == DeclEvaluated(fam, d)
             sent == DeclGenerated(given.stmts)
  <1>3. Comes(fam, d)
    <2>1. Told("text", d)
      BY DEF Told
    <2> QED
      BY <1>1, <2>1, GivenGoes DEF GoesThrough
  <1>4. given.err # "none" \/ \E m : Loads(fam, d, m)
    BY <1>3 DEF Comes
  <1>5. Sent(fam, d)
    <2>1. ASSUME given.err = "none"
          PROVE  /\ sent.err # "BUG" /\ sent.low = 0
                 /\ \A P \in {fam} : DeclDoes(sent.out, P) = DeclMeans(d, P)
      <3>1. PICK m : Loads(fam, d, m)
        BY <1>4, <2>1
      <3>2. sent = Kept(m) /\ DeclDoes(m, fam) = DeclMeans(d, fam)
        BY <3>1 DEF Loads
      <3> HIDE DEF sent
      <3> QED
        BY <3>2, Fields
    <2>2. given.err # "BUG"
      BY <1>3 DEF Comes
    <2> QED
      BY <1>2, <2>1, <2>2 DEF Sent
  <1>6. ASSUME NEW how \in FormatsOf(fam, d) PROVE Back(fam, how, d)
    <2> DEFINE shown == DeclListed(fam, how, sent.out)
               read == DeclRead(how, shown.stmts)
               back == DeclEvaluated(fam, read.stmts)
               second == DeclGenerated(back.stmts)
    <2>1. ASSUME given.err = "none"
          PROVE  /\ shown.err = "none" /\ read.err = "none" /\ back.err = "none"
                 /\ second.err = "none" /\ second.low = 0
                 /\ \A P \in {fam} : /\ DeclMeans(read.stmts, P) = DeclDoes(sent.out, P)
                                     /\ DeclDoes(second.out, P) = DeclDoes(sent.out, P)
                 /\ DeclListed(fam, how, second.out) = shown
      <3>1. PICK m : Loads(fam, d, m)
        BY <1>4, <2>1
      <3>2. sent = Kept(m)
        BY <3>1 DEF Loads
      <3>3. Told(how, d)
        BY <1>6 DEF DeclPath, Told
      <3>4. Returns(fam, how, m)
        BY <1>1, <3>1, <3>3, GivenGoes DEF GoesThrough
      <3>5. sent.out = m /\ shown = DeclListed(fam, how, m)
        BY <3>2, Fields
      <3>6. shown.err = "none"
        BY <3>5, Fields DEF DeclListed
      <3> HIDE DEF sent, shown
      <3>7. PICK n : /\ read.err = "none" /\ Loads(fam, read.stmts, n)
                     /\ DeclDoes(n, fam) = DeclDoes(m, fam) /\ DeclListed(fam, how, n) = DeclListed(fam, how, m)
        BY <3>4, <3>5 DEF Returns
      <3>8. back.err = "none" /\ second = Kept(n) /\ DeclDoes(n, fam) = DeclMeans(read.stmts, fam)
        BY <3>7 DEF Loads
      <3> HIDE DEF read, back, second
      <3>9. second.err = "none" /\ second.low = 0 /\ second.out = n
        BY <3>8, Fields
      <3> QED
        BY <3>5, <3>6, <3>7, <3>8, <3>9
    <2>2. /\ Evaluated(fam, d) = given /\ Generated(given.stmts) = sent /\ Listed(fam, how, sent.out) = shown
          /\ Read(how, shown.stmts) = read /\ Evaluated(fam, read.stmts) = back /\ Generated(back.stmts) = second
          /\ Listed(fam, how, second.out) = DeclListed(fam, how, second.out) /\ PacketsOf(fam, d) = {fam}
      BY <1>2
    <2>3. /\ Says(read.stmts, fam) = DeclMeans(read.stmts, fam)
          /\ Acts(second.out, fam) = DeclDoes(second.out, fam) /\ Acts(sent.out, fam) = DeclDoes(sent.out, fam)
      BY <1>2
    <2> HIDE DEF given, sent, shown, read, back, second
    <2> QED
      BY <2>1, <2>2, <2>3 DEF Back
  <1> QED
    BY <1>5, <1>6

(* So the rule path of the declarations has the five properties.             *)
LEMMA DeclarationsAreRight ==
  DeclPath /\ Spec => [](NoBug /\ SaysWhatItDoes /\ ListsWhatItDoes /\ LoadsAgain /\ ListsTheSame)
  <1>1. DeclPath => (PathInv => NoBug /\ SaysWhatItDoes /\ ListsWhatItDoes /\ LoadsAgain /\ ListsTheSame)
    BY EveryDeclarationCarried, PathIsRight
  <1>2. CASE DeclPath
    <2>1. PathInv => NoBug /\ SaysWhatItDoes /\ ListsWhatItDoes /\ LoadsAgain /\ ListsTheSame
      BY <1>1, <1>2
    <2> QED
      BY <2>1, PathInvHolds, PTL
  <1>3. CASE ~DeclPath
    BY <1>3
  <1> QED
    BY <1>2, <1>3

(* The BUG()s of evaluation, generation and decoding are not reached by a    *)
(* declaration, be it given or read from a listing.                          *)
THEOREM DeclaredWithoutBug == DeclPath /\ Spec => []NoBug
  BY DeclarationsAreRight, PTL

(* What the kernel has of a table, chain, flowtable, object or set does what *)
(* the manual says of the declaration (do_add_table(), do_add_chain(),       *)
(* do_add_set() with the evaluation before them).                            *)
THEOREM DeclaredAsSaid == DeclPath /\ Spec => []SaysWhatItDoes
  BY DeclarationsAreRight, PTL

(* What nft list prints of it, as text or as JSON, says what the kernel does *)
(* (table_print(), chain_print(), flowtable_print(), obj_print(),            *)
(* set_print()).                                                             *)
THEOREM DeclaredAsListed == DeclPath /\ Spec => []ListsWhatItDoes
  BY DeclarationsAreRight, PTL

(* What nft list prints of it is read by nft -f, or nft -j -f, and is not    *)
(* refused (parser_bison.y, parser_json.c).                                  *)
THEOREM DeclaredLoadsAgain == DeclPath /\ Spec => []LoadsAgain
  BY DeclarationsAreRight, PTL

(* What is loaded from the listing does the same as before and is listed the *)
(* same.                                                                     *)
THEOREM DeclaredListsTheSame == DeclPath /\ Spec => []ListsTheSame
  BY DeclarationsAreRight, PTL
=============================================================================
