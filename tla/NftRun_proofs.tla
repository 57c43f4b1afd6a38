---------------------------- MODULE NftRun_proofs ----------------------------
(***************************************************************************)
(* Proofs about NftRun, for every set of tables and every set of batches:  *)
(* the cache that outlives a run, the locations of rules and what the      *)
(* execution of a batch finds in the cache.                                *)
(***************************************************************************)
EXTENDS NftRun, Induction

(* A ruleset is a set of pairs in which nothing lacks what it is in.       *)
LEMMA RulesetIs ==
    ASSUME NEW R
    PROVE  R \in Rulesets <=> R \subseteq Tables \X Kinds /\ Closed(R)
  BY DEF Rulesets

LEMMA ChainParts ==
    Chain \subseteq Kinds /\ Set \subseteq Kinds /\ Elems \subseteq Kinds /\ Rule \subseteq Kinds
  BY DEF Chain, Set, Elems, Rule, Kinds

LEMMA CommandParts ==
    ASSUME NEW b \in Batches, NEW i \in DOMAIN b
    PROVE  /\ b[i] \in Command
           /\ b[i].op = "ADD" => b[i].obj \in Added
           /\ b[i].obj = "RULE INDEX" => b[i].op = "ADD"
  <1>1. b \in Seq(Command)
    BY BatchesAssumption
  <1>2. b[i] \in Command
    BY <1>1
  <1> QED
    BY <1>2, BatchesAssumption

LEMMA BatchLength ==
    ASSUME NEW b \in Batches \cup {<<>>}
    PROVE  Len(b) \in Nat /\ DOMAIN b = 1 .. Len(b)
  <1>1. CASE b = <<>>
    BY <1>1
  <1>2. CASE b \in Batches
    <2>1. b \in Seq(Command)
      BY <1>2, BatchesAssumption
    <2> QED
      BY <2>1
  <1> QED
    BY <1>1, <1>2

(* What a command leaves of a ruleset that has what it needs is a ruleset. *)
LEMMA LeavesType ==
    ASSUME NEW R \in SUBSET (Tables \X Kinds), NEW c \in Command,
           c.op = "ADD" => c.obj \in Added
    PROVE  Leaves(c, R) \in SUBSET (Tables \X Kinds)
  <1>1. c.tbl \in Tables
    BY DEF Command
  <1>2. c.op = "ADD" => Makes(c.obj) \subseteq Kinds
    BY DEF Makes, Kinds
  <1> QED
    BY <1>1, <1>2 DEF Leaves

LEMMA LeavesClosed ==
    ASSUME NEW R \in Rulesets, NEW c \in Command,
           c.op = "ADD" => c.obj \in Added,
           Needs(c) \subseteq R
    PROVE  Leaves(c, R) \in Rulesets
  <1>1. R \subseteq Tables \X Kinds /\ c.tbl \in Tables
    BY RulesetIs DEF Command
  <1>2. Leaves(c, R) \subseteq Tables \X Kinds
    BY <1>1, LeavesType
  <1>3. Closed(Leaves(c, R))
    <2>1. \A q \in R : /\ <<q[1], "TABLE">> \in R
                       /\ q[2] = "RULE"    => <<q[1], "CHAIN">> \in R
                       /\ q[2] = "SETELEM" => <<q[1], "SET">> \in R
      BY RulesetIs DEF Closed
    <2>2. SUFFICES ASSUME NEW p \in Leaves(c, R)
                   PROVE  /\ <<p[1], "TABLE">> \in Leaves(c, R)
                          /\ p[2] = "RULE"    => <<p[1], "CHAIN">> \in Leaves(c, R)
                          /\ p[2] = "SETELEM" => <<p[1], "SET">> \in Leaves(c, R)
      BY DEF Closed
    <2>3. CASE c.op = "ADD" /\ p \in R
      BY <2>1, <2>3 DEF Leaves
    <2>4. CASE c.op = "ADD" /\ p \notin R
      <3>1. /\ \A k \in NeedsAdd(c.obj) \cup Makes(c.obj) : <<c.tbl, k>> \in Leaves(c, R)
            /\ p[1] = c.tbl /\ p[2] \in Makes(c.obj)
        BY <2>4 DEF Leaves, Needs
      <3>2. c.obj \in Added
        BY <2>4
      <3> QED
        BY <3>1, <3>2 DEF Added, Makes, NeedsAdd, Chain, Set, Rule
    <2>5. CASE c.op = "FLUSH" /\ c.obj = "RULESET"
      BY <2>1, <2>5 DEF Leaves
    <2>6. CASE c.op # "ADD" /\ ~(c.op = "FLUSH" /\ c.obj = "RULESET")
      <3>1. /\ p \in R /\ ~(p[1] = c.tbl /\ p[2] \in Takes(c.op, c.obj))
            /\ \A q \in R : ~(q[1] = c.tbl /\ q[2] \in Takes(c.op, c.obj)) => q \in Leaves(c, R)
        BY <1>1, <2>6 DEF Leaves
      <3>2. /\ "TABLE" \in Takes(c.op, c.obj) => p[2] \in Takes(c.op, c.obj)
            /\ p[2] = "RULE" /\ "CHAIN" \in Takes(c.op, c.obj) => "RULE" \in Takes(c.op, c.obj)
            /\ p[2] = "SETELEM" /\ "SET" \in Takes(c.op, c.obj) => "SETELEM" \in Takes(c.op, c.obj)
        BY <1>1, <3>1 DEF Takes, Kinds
      <3> QED
        BY <2>1, <3>1, <3>2
    <2> QED
      BY <2>3, <2>4, <2>5, <2>6
  <1> QED
    BY <1>2, <1>3, RulesetIs

LEMMA AppliedType ==
    ASSUME NEW x \in [ok : BOOLEAN, to : SUBSET (Tables \X Kinds), changed : BOOLEAN],
           NEW c \in Command, c.op = "ADD" => c.obj \in Added,
           x.ok => x.to \in Rulesets
    PROVE  /\ Applied(x, c) \in [ok : BOOLEAN, to : SUBSET (Tables \X Kinds), changed : BOOLEAN]
           /\ Applied(x, c).ok => Applied(x, c).to \in Rulesets
  <1>1. Leaves(c, x.to) \in SUBSET (Tables \X Kinds)
    BY LeavesType
  <1>2. x.ok /\ Needs(c) \subseteq x.to => Leaves(c, x.to) \in Rulesets
    BY LeavesClosed
  <1> QED
    BY <1>1, <1>2 DEF Applied, Counts

LEMMA CachedType ==
    ASSUME cache \subseteq Tables \X Kinds, NEW c \in Command
    PROVE  Cached(c) \subseteq Tables \X Kinds
  <1>1. c.tbl \in Tables
    BY DEF Command
  <1>2. \A k \in Kinds : <<c.tbl, k>> \in Tables \X Kinds
    BY <1>1
  <1>3. cache \cup {<<c.tbl, "TABLE">>, <<c.tbl, "CHAIN">>, <<c.tbl, "SET">>, <<c.tbl, "RULE">>}
          \subseteq Tables \X Kinds
    BY <1>2 DEF Kinds
  <1>4. {c.tbl} \X {"TABLE", "CHAIN", "SET", "RULE"} \subseteq Tables \X Kinds
    BY <1>1 DEF Kinds
  <1>5. CASE c.op = "ADD" /\ c.obj \in {"TABLE", "CHAIN", "SET"}
    BY <1>3, <1>5 DEF Cached
  <1>6. CASE c.op = "ADD" /\ c.obj = "BLOCK"
    BY <1>4, <1>6 DEF Cached
  <1>7. CASE c.op = "ADD" /\ c.obj \in {"RULE", "RULE @SET", "RULE INDEX"}
    BY <1>3, <1>7 DEF Cached
  <1>8. CASE c.op = "ADD" /\ c.obj \notin {"TABLE", "CHAIN", "SET", "BLOCK", "RULE", "RULE @SET", "RULE INDEX"}
    BY <1>8 DEF Cached
  <1>9. CASE c.op # "ADD"
    BY <1>9 DEF Cached
  <1> QED
    BY <1>5, <1>6, <1>7, <1>8, <1>9

LEMMA FlagsType ==
    ASSUME NEW b \in Batches
    PROVE  CacheEvaluate(b) \subseteq Kinds \cup {"REFRESH", "UPDATE", "FLUSHED"}
  <1>1. \A c : FlagsOf(c) \subseteq Kinds \cup {"REFRESH", "UPDATE", "FLUSHED"}
    BY ChainParts DEF FlagsOf, FlagsAdd, Full, Kinds
  <1> QED
    BY <1>1 DEF CacheEvaluate

-----------------------------------------------------------------------------
(* The inductive invariant of types: what each stage adds to TypeOK.       *)
StageOK ==
    /\ stage = "idle" => cmds = <<>> /\ errs = 0 /\ linked = {}
    /\ stage # "idle" => cmds \in Batches
    /\ stage \in {"idle", "update"} => next = 1 /\ linked = {} /\ errs <= 1
    /\ stage = "evaluate" => errs <= next
    /\ stage \in {"netlink", "commit"} => errs = 0
    /\ made \in [ok : BOOLEAN, to : SUBSET (Tables \X Kinds), changed : BOOLEAN]
    /\ made.ok => made.to \in Rulesets

TInv == TypeOK /\ StageOK

LEMMA InitTyped == Init => TInv
  <1> SUFFICES ASSUME Init PROVE TInv
    OBVIOUS
  <1>1. {} \in Rulesets
    BY RulesetIs DEF Closed
  <1>2. StageOK
    BY <1>1 DEF Init, StageOK, Begun
  <1>3. Len(<<>>) = 0
    OBVIOUS
  <1>4. /\ next \in 1 .. Len(cmds) + 1 /\ errs \in 0 .. Len(cmds) + 1
        /\ cmds \in Batches \cup {<<>>} /\ linked \subseteq DOMAIN cmds
    BY <1>3 DEF Init
  <1>5. TypeOK
    BY <1>4 DEF Init, TypeOK
  <1> QED
    BY <1>2, <1>5 DEF TInv

(* The end of a run leaves nothing of it.                                  *)
LEMMA DoneTyped ==
    ASSUME TInv, Done, kernel' \in Rulesets, cache' \subseteq Tables \X Kinds,
           cgen' \in {"none", "old", "current"},
           cflags' \subseteq Kinds \cup {"REFRESH", "UPDATE"}
    PROVE  TInv'
  <1>1. {} \in Rulesets
    BY RulesetIs DEF Closed
  <1>2. StageOK'
    BY <1>1 DEF Done, StageOK, Begun
  <1>3. Len(<<>>) = 0
    OBVIOUS
  <1>4. /\ next' \in 1 .. Len(cmds') + 1 /\ errs' \in 0 .. Len(cmds') + 1
        /\ cmds' \in Batches \cup {<<>>} /\ linked' \subseteq DOMAIN cmds'
    BY <1>3 DEF Done
  <1>5. TypeOK'
    BY <1>4 DEF Done, TypeOK
  <1> QED
    BY <1>2, <1>5 DEF TInv

LEMMA StepTyped == TInv /\ [Next]_vars => TInv'
  <1> SUFFICES ASSUME TInv, [Next]_vars PROVE TInv'
    OBVIOUS
  <1> USE DEF TInv
  <1>1. CASE Commit
    BY <1>1 DEF Commit, Older, TypeOK, StageOK
  <1>2. ASSUME NEW b \in Batches, NEW dry \in DryRuns, NEW bad \in BOOLEAN, Parse(b, dry, bad)
        PROVE  TInv'
    <2>1. dry \in BOOLEAN
      BY DryRunsAssumption
    <2>2. Len(b) \in Nat /\ DOMAIN b = 1 .. Len(b)
      BY BatchLength
    <2>3. TypeOK'
      BY <1>2, <2>1, <2>2 DEF Parse, cvars, TypeOK, StageOK
    <2>4. StageOK'
      BY <1>2 DEF Parse, cvars, TypeOK, StageOK
    <2> QED
      BY <2>3, <2>4
  <1>3. CASE UpdateCache
    <2>1. cmds \in Batches
      BY <1>3 DEF UpdateCache, StageOK
    <2>2. CacheEvaluate(cmds) \subseteq Kinds \cup {"REFRESH", "UPDATE", "FLUSHED"}
      BY <2>1, FlagsType
    <2>3. Loaded(CacheEvaluate(cmds)) \subseteq Kinds \cup {"REFRESH", "UPDATE"}
      BY <2>2 DEF Loaded
    <2>4. kernel \subseteq Tables \X Kinds
      BY RulesetIs DEF TypeOK
    <2>5. TypeOK'
      BY <1>3, <2>3, <2>4 DEF UpdateCache, cvars, TypeOK
    <2>6. StageOK'
      BY <1>3, <2>1 DEF UpdateCache, StageOK, TypeOK
    <2> QED
      BY <2>5, <2>6
  <1>4. CASE Evaluate
    <2>1. stage = "evaluate"
      BY <1>4 DEF Evaluate
    <2>2. cmds \in Batches /\ Len(cmds) \in Nat /\ DOMAIN cmds = 1 .. Len(cmds)
      BY <2>1, BatchLength DEF StageOK
    <2>3. next \in Nat /\ next >= 1 /\ errs \in Nat /\ errs <= next
      BY <2>2, <2>1 DEF TypeOK, StageOK
    <2>4. next <= Len(cmds) /\ next' = next + 1
      BY <1>4 DEF Evaluate
    <2>5. next \in DOMAIN cmds
      BY <2>2, <2>3, <2>4
    <2>6. Cached(cmds[next]) \subseteq Tables \X Kinds
      BY <2>2, <2>5, CommandParts, CachedType DEF TypeOK
    <2>7. /\ linked' \subseteq DOMAIN cmds
          /\ errs' \in {errs, errs + 1}
          /\ cache' \subseteq Tables \X Kinds
      BY <1>4, <2>5, <2>6 DEF Evaluate, TypeOK
    <2>8. next' \in 1 .. Len(cmds) + 1 /\ errs' \in 0 .. Len(cmds) + 1 /\ errs' <= next'
      BY <2>2, <2>3, <2>4, <2>7
    <2>9. UNCHANGED <<kernel, cgen, cflags, stage, cmds, check, made, alone>>
      BY <1>4 DEF Evaluate
    <2>10. TypeOK'
      BY <2>7, <2>8, <2>9 DEF TypeOK
    <2>11. StageOK'
      BY <2>2, <2>8, <2>9, <2>1 DEF StageOK
    <2> QED
      BY <2>10, <2>11
  <1>5. CASE EvaluateDone
    <2>1. Len(cmds) \in Nat
      BY BatchLength DEF TypeOK
    <2> QED
      BY <1>5, <2>1 DEF EvaluateDone, Evaluated, cvars, TypeOK, StageOK
  <1>6. CASE DoCommand
    <2>1. Len(cmds) \in Nat
      BY BatchLength DEF TypeOK
    <2> QED
      BY <1>6, <2>1 DEF DoCommand, cvars, TypeOK, StageOK
  <1>7. CASE Send
    <2>1. Len(cmds) \in Nat /\ kernel \in SUBSET (Tables \X Kinds)
      BY BatchLength, RulesetIs DEF TypeOK
    <2> QED
      BY <1>7, <2>1 DEF Send, cvars, TypeOK, StageOK, Begun
  <1>8. CASE ApplyNext
    <2>1. Len(cmds) \in Nat /\ cmds \in Batches /\ next \in DOMAIN cmds
      BY <1>8, BatchLength DEF ApplyNext, StageOK, TypeOK
    <2>2. /\ made' \in [ok : BOOLEAN, to : SUBSET (Tables \X Kinds), changed : BOOLEAN]
          /\ made'.ok => made'.to \in Rulesets
      <3>1. /\ cmds[next] \in Command
            /\ cmds[next].op = "ADD" => cmds[next].obj \in Added
        BY <2>1, CommandParts
      <3> QED
        BY <1>8, <3>1, AppliedType DEF ApplyNext, StageOK
    <2>3. TypeOK'
      BY <1>8, <2>1 DEF ApplyNext, cvars, TypeOK
    <2>4. StageOK'
      BY <1>8, <2>1, <2>2 DEF ApplyNext, cvars, StageOK
    <2> QED
      BY <2>3, <2>4
  <1>9. CASE Netlink
    <2>1. kernel' \in Rulesets /\ cgen' \in {"none", "old", "current"}
      BY <1>9 DEF Netlink, Older, StageOK, TypeOK
    <2> QED
      BY <1>9, <2>1, DoneTyped DEF Netlink, TypeOK
  <1>10. CASE Fail /\ UNCHANGED kernel
    BY <1>10, DoneTyped DEF Fail, TypeOK
  <1>11. CASE UNCHANGED vars
    BY <1>11 DEF vars, cvars, TypeOK, StageOK
  <1> QED
    BY <1>1, <1>2, <1>3, <1>4, <1>5, <1>6, <1>7, <1>8, <1>9, <1>10, <1>11
       DEF Next, UpdateCacheFails, EvaluateFails, DoCommandFails, NetlinkFails

(* The types, and what the stages of a run let them be: the invariant that *)
(* the proofs about a run start from.                                      *)
THEOREM Typed == Spec => []TInv
  BY InitTyped, StepTyped, PTL DEF Spec

(* The variables of a run (libnftables.c:542) keep their types, whatever   *)
(* the batches.                                                            *)
THEOREM Typing == Spec => []TypeOK
  BY Typed, PTL DEF TInv

-----------------------------------------------------------------------------
(* The cache that outlives a run.  While a batch is evaluated the cache    *)
(* runs ahead of the kernel, but as long as the commands evaluated are     *)
(* ones that would change nothing, neither did their evaluation; and only  *)
(* such a batch leaves the generation of the kernel as it was.             *)
NoDryRuns == DryRuns = {FALSE}

Agree(R) == \A t \in Tables, k \in Kinds \cap cflags : <<t, k>> \in cache <=> <<t, k>> \in R

Futile(c) == Sends(c) => Leaves(c, kernel) = kernel /\ ~Counts(c)

Past == IF stage = "evaluate" THEN 1 .. next - 1 ELSE DOMAIN cmds

CInv ==
    /\ check = FALSE
    /\ cgen = "current" /\ stage \in {"idle", "update"} => Agree(kernel)
    /\ cgen = "current" /\ stage \in {"evaluate", "netlink", "commit"}
          /\ (\A i \in Past : Futile(cmds[i])) => Agree(kernel)
    /\ stage = "commit" /\ ~made.changed =>
          made.to = kernel /\ \A i \in 1 .. next - 1 : Futile(cmds[i])

(* A command that would change nothing is evaluated to nothing new.        *)
LEMMA CachedAgrees ==
    ASSUME TInv, NEW c \in Command, Agree(kernel), Futile(c)
    PROVE  \A t \in Tables, k \in Kinds \cap cflags : <<t, k>> \in Cached(c) <=> <<t, k>> \in kernel
  <1>1. SUFFICES ASSUME NEW t \in Tables, NEW k \in Kinds \cap cflags
                 PROVE  <<t, k>> \in Cached(c) <=> <<t, k>> \in kernel
    OBVIOUS
  <1>2. <<t, k>> \in cache <=> <<t, k>> \in kernel
    BY DEF Agree
  <1>3. CASE c.op = "ADD" /\ c.obj \in {"TABLE", "CHAIN", "SET"}
    <2>1. <<c.tbl, c.obj>> \in kernel
      BY <1>3 DEF Futile, Sends, Leaves, Makes
    <2> QED
      BY <1>2, <1>3, <2>1 DEF Cached
  <1>4. CASE c.op = "ADD" /\ c.obj \in {"BLOCK", "RULE", "RULE @SET", "RULE INDEX"}
    BY <1>4 DEF Futile, Sends, Counts
  <1>5. CASE c.op = "ADD" /\ c.obj \notin {"TABLE", "CHAIN", "SET", "BLOCK", "RULE", "RULE @SET", "RULE INDEX"}
    BY <1>2, <1>5 DEF Cached
  <1>6. CASE c.op = "DELETE" /\ c.obj = "TABLE"
    <2>1. {c.tbl} \X Kinds \cap kernel = {}
      BY <1>6 DEF Futile, Sends, Leaves, Takes
    <2> QED
      BY <1>2, <1>6, <2>1 DEF Cached, Of
  <1>7. CASE c.op = "FLUSH" /\ c.obj = "SET"
    <2>1. <<c.tbl, "SETELEM">> \notin kernel
      BY <1>7 DEF Futile, Sends, Leaves, Takes
    <2> QED
      BY <1>2, <1>7, <2>1 DEF Cached
  <1>8. CASE c.op # "ADD" /\ ~(c.op = "DELETE" /\ c.obj = "TABLE") /\ ~(c.op = "FLUSH" /\ c.obj = "SET")
    BY <1>2, <1>8 DEF Cached
  <1> QED
    BY <1>3, <1>4, <1>5, <1>6, <1>7, <1>8

LEMMA InitAgrees == Init => CInv
  BY DEF Init, CInv

LEMMA StepAgrees == NoDryRuns /\ TInv /\ CInv /\ [Next]_vars => CInv'
  <1> SUFFICES ASSUME NoDryRuns, TInv, CInv, [Next]_vars PROVE CInv'
    OBVIOUS
  <1> USE DEF CInv
  <1>1. CASE Commit
    BY <1>1 DEF Commit, Older
  <1>2. ASSUME NEW b \in Batches, NEW dry \in DryRuns, NEW bad \in BOOLEAN, Parse(b, dry, bad)
        PROVE  CInv'
    BY <1>2 DEF Parse, cvars, NoDryRuns, Agree
  <1>3. CASE UpdateCache
    <2>1. /\ stage = "update" /\ stage' = "evaluate" /\ next' = 1 /\ check' = FALSE
          /\ kernel' = kernel
      BY <1>3 DEF UpdateCache, TInv, StageOK
    <2>2. cgen' = "current" => Agree(kernel)'
      BY <1>3, <2>1 DEF UpdateCache, cvars, Agree
    <2> QED
      BY <2>1, <2>2
  <1>4. CASE Evaluate
    <2>1. /\ stage = "evaluate" /\ next' = next + 1 /\ check' = FALSE
          /\ UNCHANGED <<kernel, cgen, cflags, stage, cmds>>
      BY <1>4 DEF Evaluate
    <2>2. next \in DOMAIN cmds /\ next \in Nat /\ cmds[next] \in Command
      <3>1. cmds \in Batches /\ Len(cmds) \in Nat /\ DOMAIN cmds = 1 .. Len(cmds)
        BY <2>1, BatchLength DEF TInv, StageOK
      <3>2. next <= Len(cmds) /\ next \in 1 .. Len(cmds) + 1
        BY <1>4 DEF Evaluate, TInv, TypeOK
      <3>3. next \in DOMAIN cmds /\ next \in Nat
        BY <3>1, <3>2
      <3> QED
        BY <3>1, <3>3, CommandParts
    <2>3. SUFFICES ASSUME cgen = "current", \A i \in 1 .. next : Futile(cmds[i])
                   PROVE  Agree(kernel)'
      BY <2>1, <2>2 DEF Past, Futile
    <2>4. Agree(kernel) /\ Futile(cmds[next])
      <3>1. next \in Nat /\ next >= 1
        BY DEF TInv, TypeOK
      <3>2. next \in 1 .. next /\ \A i \in 1 .. next - 1 : i \in 1 .. next
        BY <3>1
      <3>3. \A i \in Past : Futile(cmds[i])
        BY <2>1, <2>3, <3>2 DEF Past
      <3> QED
        BY <2>1, <2>3, <3>2, <3>3
    <2>5. CASE Found(cmds[next])
      <3>1. cache' = Cached(cmds[next])
        BY <1>4, <2>5 DEF Evaluate
      <3>2. \A t \in Tables, k \in Kinds \cap cflags : <<t, k>> \in Cached(cmds[next]) <=> <<t, k>> \in kernel
        BY <2>2, <2>4, CachedAgrees
      <3> QED
        BY <2>1, <3>1, <3>2 DEF Agree
    <2>6. CASE ~Found(cmds[next])
      <3>1. cache' = cache
        BY <1>4, <2>6 DEF Evaluate
      <3> QED
        BY <2>1, <2>4, <3>1 DEF Agree
    <2> QED
      BY <2>5, <2>6
  <1>5. CASE EvaluateDone
    <2>1. DOMAIN cmds = 1 .. Len(cmds) /\ Len(cmds) \in Nat /\ next = Len(cmds) + 1
      BY <1>5, BatchLength DEF EvaluateDone, Evaluated, TInv, TypeOK
    <2>2. /\ stage = "evaluate" /\ stage' = "netlink"
          /\ UNCHANGED <<kernel, cvars, cmds, check>>
      BY <1>5 DEF EvaluateDone, Evaluated
    <2>3. Past' = Past
      BY <2>1, <2>2 DEF Past
    <2> QED
      BY <2>2, <2>3 DEF cvars, Agree, Futile
  <1>6. CASE DoCommand
    BY <1>6 DEF DoCommand, cvars, Agree, Past, Futile
  <1>7. CASE Send
    <2>1. next' = 1 /\ made'.to = kernel'
      BY <1>7 DEF Send, Begun
    <2> QED
      BY <1>7, <2>1 DEF Send, cvars, Agree, Past, Futile
  <1>8. CASE ApplyNext
    <2>1. /\ stage = "commit" /\ stage' = "commit" /\ next' = next + 1 /\ next \in Nat
          /\ UNCHANGED <<kernel, cvars, cmds, check>>
      BY <1>8, BatchLength DEF ApplyNext, TInv, TypeOK
    <2>2. ~made'.changed => /\ made.to = kernel /\ made'.to = kernel
                            /\ \A i \in 1 .. next : Futile(cmds[i])
      <3>1. CASE Sends(cmds[next])
        <4>1. made' = Applied(made, cmds[next])
          BY <1>8, <3>1 DEF ApplyNext
        <4>2. ~made'.changed => /\ ~made.changed /\ ~Counts(cmds[next])
                                /\ made'.to = made.to /\ Leaves(cmds[next], made.to) = made.to
          BY <4>1 DEF Applied
        <4> QED
          BY <2>1, <4>2 DEF Futile
      <3>2. CASE ~Sends(cmds[next])
        <4>1. made' = made
          BY <1>8, <3>2 DEF ApplyNext
        <4> QED
          BY <2>1, <3>2, <4>1 DEF Futile
      <3> QED
        BY <3>1, <3>2
    <2>3. next' - 1 = next
      BY <2>1
    <2> QED
      BY <2>1, <2>2, <2>3 DEF cvars, Agree, Past, Futile
  <1>9. CASE Netlink
    <2>1. /\ stage = "commit" /\ stage' = "idle" /\ check' = FALSE
          /\ DOMAIN cmds = 1 .. next - 1
          /\ UNCHANGED <<cache, cflags>>
      <3>1. DOMAIN cmds = 1 .. Len(cmds) /\ Len(cmds) \in Nat /\ next = Len(cmds) + 1
        BY <1>9, BatchLength DEF Netlink, TInv, TypeOK
      <3> QED
        BY <1>9, <3>1 DEF Netlink, Done
    <2>2. CASE made.changed
      BY <1>9, <2>1, <2>2 DEF Netlink, Older
    <2>3. CASE ~made.changed
      BY <1>9, <2>1, <2>3 DEF Netlink, Agree, Past
    <2> QED
      BY <2>2, <2>3
  <1>10. CASE Fail /\ UNCHANGED kernel
    BY <1>10 DEF Fail, Done
  <1>11. CASE UNCHANGED vars
    BY <1>11 DEF vars, cvars, Agree, Past, Futile
  <1> QED
    BY <1>1, <1>2, <1>3, <1>4, <1>5, <1>6, <1>7, <1>8, <1>9, <1>10, <1>11
       DEF Next, UpdateCacheFails, EvaluateFails, DoCommandFails, NetlinkFails

(* cache_is_updated(), cache.c:387-390: without dry runs, the next run     *)
(* takes for valid only what agrees with the kernel.                       *)
THEOREM CacheIsCurrentTheorem == NoDryRuns /\ Spec => []CacheIsCurrent
  <1>1. CInv => CacheIsCurrent
    BY DEF CInv, CacheIsCurrent, Agree, Has
  <1>2. NoDryRuns /\ Spec => []CInv
    <2>1. SUFFICES ASSUME NoDryRuns PROVE Spec => []CInv
      OBVIOUS
    <2>2. TInv /\ CInv /\ [Next]_vars => CInv'
      BY <2>1, StepAgrees
    <2> QED
      BY <2>2, InitAgrees, Typed, PTL DEF Spec
  <1> QED
    BY <1>1, <1>2, PTL

-----------------------------------------------------------------------------
(* Rules located by an index.  cache_evaluate() assigns the flags of a     *)
(* replace command instead of adding them, so a replace must not come      *)
(* behind an index.                                                        *)
NoLateReplace ==
    \A b \in Batches : \A i, j \in DOMAIN b :
        b[i].obj = "RULE INDEX" /\ j > i => b[j].op # "REPLACE"

Indexed(c) == c.obj = "RULE INDEX"

XInv ==
    /\ stage = "evaluate" /\ errs = 0 =>
          \A i \in 1 .. next - 1 : Indexed(cmds[i]) => i \in linked
    /\ stage = "evaluate" /\ (\E i \in DOMAIN cmds : Indexed(cmds[i])) => "UPDATE" \in cflags
    /\ stage \in {"netlink", "commit"} =>
          \A i \in DOMAIN cmds : Indexed(cmds[i]) => i \in linked

LEMMA IndexAsksForUpdates ==
    ASSUME NoLateReplace, NEW b \in Batches, NEW i \in DOMAIN b, Indexed(b[i])
    PROVE  "UPDATE" \in CacheEvaluate(b)
  <1>1. b[i].op = "ADD" /\ b[i].obj = "RULE INDEX"
    BY CommandParts DEF Indexed
  <1>2. "UPDATE" \in FlagsOf(b[i])
    BY <1>1 DEF FlagsOf, FlagsAdd
  <1>3. \A k \in DOMAIN b : k > i => b[k].op # "REPLACE"
    BY <1>1 DEF NoLateReplace
  <1> QED
    BY <1>2, <1>3 DEF CacheEvaluate

LEMMA StepTranslates == NoLateReplace /\ TInv /\ XInv /\ [Next]_vars => XInv'
  <1> SUFFICES ASSUME NoLateReplace, TInv, XInv, [Next]_vars PROVE XInv'
    OBVIOUS
  <1> USE DEF XInv
  <1>1. CASE Commit
    BY <1>1 DEF Commit
  <1>2. ASSUME NEW b \in Batches, NEW dry \in DryRuns, NEW bad \in BOOLEAN, Parse(b, dry, bad)
        PROVE  XInv'
    BY <1>2 DEF Parse
  <1>3. CASE UpdateCache
    <2>1. /\ stage = "update" /\ stage' = "evaluate" /\ next' = 1 /\ cmds' = cmds
          /\ cmds \in Batches
      BY <1>3 DEF UpdateCache, TInv, StageOK
    <2>2. ASSUME NEW i \in DOMAIN cmds, Indexed(cmds[i])
          PROVE  "UPDATE" \in cflags'
      <3>1. "UPDATE" \in CacheEvaluate(cmds)
        BY <2>1, <2>2, IndexAsksForUpdates
      <3> QED
        BY <1>3, <3>1 DEF UpdateCache, Usable, Loaded, cvars
    <2> QED
      BY <2>1, <2>2
  <1>4. CASE Evaluate
    <2>1. /\ stage = "evaluate" /\ next' = next + 1
          /\ UNCHANGED <<cflags, stage, cmds>>
      BY <1>4 DEF Evaluate
    <2>2. next \in DOMAIN cmds /\ next \in Nat /\ errs \in Nat
      <3>1. cmds \in Batches /\ Len(cmds) \in Nat /\ DOMAIN cmds = 1 .. Len(cmds)
        BY <2>1, BatchLength DEF TInv, StageOK
      <3>2. next <= Len(cmds) /\ next \in 1 .. Len(cmds) + 1 /\ errs \in 0 .. Len(cmds) + 1
        BY <1>4 DEF Evaluate, TInv, TypeOK
      <3> QED
        BY <3>1, <3>2
    <2>3. errs' = 0 => /\ errs = 0 /\ linked \subseteq linked'
                       /\ Indexed(cmds[next]) => next \in linked'
      <3>1. CASE Found(cmds[next])
        BY <1>4, <2>1, <2>2, <3>1 DEF Evaluate, Indexed
      <3>2. CASE ~Found(cmds[next])
        BY <1>4, <2>2, <3>2 DEF Evaluate
      <3> QED
        BY <3>1, <3>2
    <2>4. \A i \in 1 .. next : i \in 1 .. next - 1 \/ i = next
      BY <2>2
    <2>5. next' - 1 = next
      BY <2>1, <2>2
    <2> QED
      BY <2>1, <2>3, <2>4, <2>5
  <1>5. CASE EvaluateDone
    <2>1. DOMAIN cmds = 1 .. Len(cmds) /\ Len(cmds) \in Nat /\ next = Len(cmds) + 1
      BY <1>5, BatchLength DEF EvaluateDone, Evaluated, TInv, TypeOK
    <2>2. /\ stage = "evaluate" /\ stage' = "netlink" /\ errs = 0
          /\ UNCHANGED <<cmds, linked>>
      BY <1>5 DEF EvaluateDone, Evaluated
    <2> QED
      BY <2>1, <2>2
  <1>6. CASE DoCommand \/ Send \/ ApplyNext
    BY <1>6 DEF DoCommand, Send, ApplyNext
  <1>7. CASE Done
    BY <1>7 DEF Done
  <1>8. CASE UNCHANGED vars
    BY <1>8 DEF vars, cvars
  <1> QED
    BY <1>1, <1>2, <1>3, <1>4, <1>5, <1>6, <1>7, <1>8
       DEF Next, UpdateCacheFails, EvaluateFails, DoCommandFails, NetlinkFails, Netlink, Fail

(* rule_evaluate(), evaluate.c:4050-4051: no batch is sent with an index   *)
(* that was not translated, unless a replace command comes behind it.      *)
THEOREM IndexTranslatedTheorem == NoLateReplace /\ Spec => []IndexTranslated
  <1>1. XInv => IndexTranslated
    BY DEF XInv, IndexTranslated, Indexed
  <1>2. Init => XInv
    BY DEF Init, XInv
  <1>3. SUFFICES ASSUME NoLateReplace PROVE Spec => []IndexTranslated
    OBVIOUS
  <1>4. TInv /\ XInv /\ [Next]_vars => XInv'
    BY <1>3, StepTranslates
  <1> QED
    BY <1>1, <1>2, <1>4, Typed, PTL DEF Spec

-----------------------------------------------------------------------------
(* What is executed with the cache.  Nothing is taken away that a command  *)
(* before it in the batch is executed with, and nothing is listed or reset *)
(* for more than one table.                                                *)
Uses(c) == c.op \in {"LIST", "RENAME"} \/ (c.op = "RESET" /\ c.obj = "COUNTERS")

NothingTakenAway ==
    \A b \in Batches : \A i \in DOMAIN b :
        /\ b[i].op = "LIST" => b[i].obj \in {"TABLE", "CHAIN", "SET"}
        /\ ~(b[i].op = "RESET" /\ b[i].obj = "ALL COUNTERS")
        /\ Uses(b[i]) =>
              \A j \in DOMAIN b : j > i =>
                  ~(b[j].op = "DELETE" /\ b[j].obj = "TABLE" /\ b[j].tbl = b[i].tbl)

Wanted(c) ==
    {c.tbl} \X (IF c.op = "RENAME" THEN Chain
                ELSE IF c.op = "LIST" /\ c.obj = "SET" THEN Set
                ELSE IF Uses(c) THEN {"TABLE"} ELSE {})

FInv ==
    /\ stage = "evaluate" /\ errs = 0 =>
          \A i \in 1 .. next - 1 : Wanted(cmds[i]) \subseteq cache
    /\ stage = "netlink" =>
          \A i \in DOMAIN cmds : Wanted(cmds[i]) \subseteq cache

LEMMA WantedIs ==
    ASSUME NEW c, ~(c.op = "RESET" /\ c.obj = "ALL COUNTERS")
    PROVE  DoLookups(c) \subseteq Wanted(c)
  <1>1. CASE c.op = "LIST"
    BY <1>1 DEF DoLookups, Wanted, Uses
  <1>2. CASE c.op = "RENAME"
    BY <1>2 DEF DoLookups, Wanted
  <1>3. CASE c.op = "RESET" /\ c.obj = "COUNTERS"
    BY <1>3 DEF DoLookups, Wanted, Uses
  <1>4. CASE c.op \notin {"LIST", "RENAME"} /\ ~(c.op = "RESET" /\ c.obj = "COUNTERS")
    BY <1>4 DEF DoLookups
  <1> QED
    BY <1>1, <1>2, <1>3, <1>4

(* What a command looks up when it is executed it has found before.        *)
LEMMA WantedFound ==
    ASSUME NEW c, Found(c), c.op = "LIST" => c.obj \in {"TABLE", "CHAIN", "SET"}
    PROVE  Wanted(c) \subseteq cache
  <1>1. {c.tbl} \X Lookups(c) \subseteq cache
    BY DEF Found
  <1>2. CASE c.op = "LIST"
    BY <1>1, <1>2 DEF Wanted, Uses, Lookups, LookupsList, Set
  <1>3. CASE c.op = "RENAME"
    BY <1>1, <1>3 DEF Wanted, Lookups, LookupsRename
  <1>4. CASE c.op = "RESET" /\ c.obj = "COUNTERS"
    BY <1>1, <1>4 DEF Wanted, Uses, Lookups, LookupsReset
  <1>5. CASE ~Uses(c)
    BY <1>5 DEF Wanted, Uses
  <1> QED
    BY <1>2, <1>3, <1>4, <1>5 DEF Uses

(* And evaluating another one leaves it there, if it deletes no table.     *)
LEMMA WantedKept ==
    ASSUME NEW c, NEW d, Wanted(c) \subseteq cache,
           Uses(c) => ~(d.op = "DELETE" /\ d.obj = "TABLE" /\ d.tbl = c.tbl)
    PROVE  Wanted(c) \subseteq Cached(d)
  <1>1. Wanted(c) \subseteq {c.tbl} \X {"TABLE", "CHAIN", "SET"}
    BY DEF Wanted, Chain, Set
  <1>2. ~Uses(c) => Wanted(c) = {}
    BY DEF Wanted, Uses
  <1>3. CASE d.op = "DELETE" /\ d.obj = "TABLE"
    <2>1. Cached(d) = cache \ Of(d.tbl)
      BY <1>3 DEF Cached
    <2>2. CASE Uses(c)
      BY <1>1, <1>3, <2>1, <2>2 DEF Of
    <2> QED
      BY <1>2, <2>2
  <1>4. CASE d.op = "FLUSH" /\ d.obj = "SET"
    <2>1. Cached(d) = cache \ {<<d.tbl, "SETELEM">>}
      BY <1>4 DEF Cached
    <2> QED
      BY <1>1, <2>1
  <1>5. CASE d.op = "ADD"
    BY <1>5 DEF Cached
  <1>6. CASE /\ d.op # "ADD" /\ ~(d.op = "DELETE" /\ d.obj = "TABLE")
             /\ ~(d.op = "FLUSH" /\ d.obj = "SET")
    BY <1>6 DEF Cached
  <1> QED
    BY <1>3, <1>4, <1>5, <1>6

LEMMA StepFinds == NothingTakenAway /\ TInv /\ FInv /\ [Next]_vars => FInv'
  <1> SUFFICES ASSUME NothingTakenAway, TInv, FInv, [Next]_vars PROVE FInv'
    OBVIOUS
  <1> USE DEF FInv
  <1>1. CASE Commit
    BY <1>1 DEF Commit
  <1>2. ASSUME NEW b \in Batches, NEW dry \in DryRuns, NEW bad \in BOOLEAN, Parse(b, dry, bad)
        PROVE  FInv'
    BY <1>2 DEF Parse
  <1>3. CASE UpdateCache
    BY <1>3 DEF UpdateCache, TInv, StageOK
  <1>4. CASE Evaluate
    <2>1. /\ stage = "evaluate" /\ next' = next + 1
          /\ UNCHANGED <<stage, cmds>>
      BY <1>4 DEF Evaluate
    <2>2. cmds \in Batches /\ Len(cmds) \in Nat /\ DOMAIN cmds = 1 .. Len(cmds)
      BY <2>1, BatchLength DEF TInv, StageOK
    <2>3. next \in DOMAIN cmds /\ next \in Nat /\ errs \in Nat
      <3>1. next <= Len(cmds) /\ next \in 1 .. Len(cmds) + 1 /\ errs \in 0 .. Len(cmds) + 1
        BY <1>4 DEF Evaluate, TInv, TypeOK
      <3> QED
        BY <2>2, <3>1
    <2>4. SUFFICES ASSUME errs' = 0, NEW i \in 1 .. next
                   PROVE  Wanted(cmds[i]) \subseteq cache'
      BY <2>1, <2>3
    <2>5. /\ Found(cmds[next]) /\ errs = 0 /\ cache' = Cached(cmds[next])
      <3>1. CASE Found(cmds[next])
        BY <1>4, <2>4, <3>1 DEF Evaluate
      <3>2. CASE ~Found(cmds[next])
        <4>1. errs' = errs + 1
          BY <1>4, <3>2 DEF Evaluate
        <4> QED
          BY <2>3, <2>4, <4>1
      <3> QED
        BY <3>1, <3>2
    <2>6. i \in DOMAIN cmds
      BY <2>2, <2>3
    <2>7. Wanted(cmds[i]) \subseteq cache
      <3>1. CASE i = next
        BY <2>2, <2>3, <2>5, <3>1, WantedFound DEF NothingTakenAway
      <3>2. CASE i # next
        <4>1. i \in 1 .. next - 1
          BY <2>3, <3>2
        <4> QED
          BY <2>1, <2>5, <4>1
      <3> QED
        BY <3>1, <3>2
    <2>8. Uses(cmds[i]) => ~(/\ cmds[next].op = "DELETE" /\ cmds[next].obj = "TABLE"
                             /\ cmds[next].tbl = cmds[i].tbl)
      <3>1. CASE i = next
        BY <3>1 DEF Uses
      <3>2. CASE i # next
        <4>1. next > i
          BY <2>3, <3>2
        <4> QED
          BY <2>2, <2>3, <2>6, <4>1 DEF NothingTakenAway
      <3> QED
        BY <3>1, <3>2
    <2> QED
      BY <2>5, <2>7, <2>8, WantedKept
  <1>5. CASE EvaluateDone
    <2>1. DOMAIN cmds = 1 .. Len(cmds) /\ Len(cmds) \in Nat /\ next = Len(cmds) + 1
      BY <1>5, BatchLength DEF EvaluateDone, Evaluated, TInv, TypeOK
    <2>2. /\ stage = "evaluate" /\ stage' = "netlink" /\ errs = 0
          /\ UNCHANGED <<cmds, cache>>
      BY <1>5 DEF EvaluateDone, Evaluated, cvars
    <2> QED
      BY <2>1, <2>2
  <1>6. CASE DoCommand
    BY <1>6 DEF DoCommand, cvars
  <1>7. CASE Send \/ ApplyNext
    BY <1>7 DEF Send, ApplyNext
  <1>8. CASE Done
    BY <1>8 DEF Done
  <1>9. CASE UNCHANGED vars
    BY <1>9 DEF vars, cvars
  <1> QED
    BY <1>1, <1>2, <1>3, <1>4, <1>5, <1>6, <1>7, <1>8, <1>9
       DEF Next, UpdateCacheFails, EvaluateFails, DoCommandFails, NetlinkFails, Netlink, Fail

(* do_command(), rule.c:2454-2640: the pointers that are followed when a   *)
(* batch is executed are found in the cache, when nothing is taken away.   *)
THEOREM FoundAgainTheorem == NothingTakenAway /\ Spec => []FoundAgain
  <1>1. SUFFICES ASSUME NothingTakenAway PROVE Spec => []FoundAgain
    OBVIOUS
  <1>2. TInv /\ FInv => FoundAgain
    <2>1. SUFFICES ASSUME TInv, FInv, stage = "netlink", next <= Len(cmds)
                   PROVE  DoLookups(cmds[next]) \subseteq cache
      BY DEF FoundAgain
    <2>2. cmds \in Batches /\ Len(cmds) \in Nat /\ DOMAIN cmds = 1 .. Len(cmds)
      BY <2>1, BatchLength DEF TInv, StageOK
    <2>3. next \in DOMAIN cmds
      BY <2>1, <2>2 DEF TInv, TypeOK
    <2>4. ~(cmds[next].op = "RESET" /\ cmds[next].obj = "ALL COUNTERS")
      BY <1>1, <2>2, <2>3 DEF NothingTakenAway
    <2> QED
      BY <2>1, <2>3, <2>4, WantedIs DEF FInv
  <1>3. Init => FInv
    BY DEF Init, FInv
  <1>4. TInv /\ FInv /\ [Next]_vars => FInv'
    BY <1>1, StepFinds
  <1> QED
    BY <1>2, <1>3, <1>4, Typed, PTL DEF Spec

-----------------------------------------------------------------------------
(* No false rejects.  The cache runs ahead of the kernel: it has at least  *)
(* what the commands before the next one leave, of every table and kind    *)
(* that a command of the batch looks up.  This takes batches in which      *)
(*   - the elements of a table block are not looked up after it, unless    *)
(*     the table was deleted in front of the block or behind it: a block   *)
(*     of a cached table is not merged into it;                            *)
(*   - such a block does not meet an index, for which rules are kept;      *)
(*   - the ruleset is flushed before anything is looked up: a cache that   *)
(*     is to be flushed is not loaded.                                     *)
Removes(c, t) == c.op = "DELETE" /\ c.obj = "TABLE" /\ c.tbl = t
Flushes(c, t) == c.op = "FLUSH" /\ c.obj = "RULESET" /\ Family[c.tbl] = Family[t]

(* The commands before n deleted the table and none of them made it again. *)
GoneAt(b, n, t) ==
    \E k \in 1 .. n - 1 : /\ Removes(b[k], t)
                          /\ \A m \in k + 1 .. n - 1 : b[m].op = "ADD" => b[m].tbl # t

(* A block of a table that may be cached, and the table since then.        *)
Merges(b, i) == b[i].obj = "BLOCK" /\ ~GoneAt(b, i, b[i].tbl)
BehindBlock(b, n, t) ==
    \E i \in 1 .. n - 1 : /\ Merges(b, i) /\ b[i].tbl = t
                          /\ \A k \in i + 1 .. n - 1 : ~Removes(b[k], t)

HasIndex(b) == \E i \in DOMAIN b : Indexed(b[i])

(* What a command may look up, when the cache is kept up to date or not.   *)
LooksUp(b, c) ==
    Lookups(c) \cup
      (IF ~HasIndex(b) THEN {}
       ELSE CASE c.op = "ADD" /\ c.obj \in {"RULE", "RULE @SET"} -> Chain
              [] c.obj = "RULE INDEX" \/ c.op = "REPLACE"        -> Rule
              [] OTHER                                           -> {})

BlocksLast ==
    \A b \in Batches : \A n \in DOMAIN b :
        /\ BehindBlock(b, n, b[n].tbl) => LooksUp(b, b[n]) \subseteq {"TABLE"}
        /\ Merges(b, n) => ~HasIndex(b)

FlushesFirst ==
    \A b \in Batches : "FLUSHED" \in CacheEvaluate(b) =>
        \A n \in DOMAIN b :
            LooksUp(b, b[n]) # {} => \E i \in 1 .. n - 1 : Flushes(b[i], b[n].tbl)

(* The kinds of objects of a table the cache has when command n is next.   *)
Tracked(n, t) ==
    {k \in {"TABLE", "CHAIN", "SET", "RULE"} :
        /\ k = "RULE" => "UPDATE" \in cflags
        /\ BehindBlock(cmds, n, t) => k = "TABLE"
        /\ IF "FLUSHED" \in CacheEvaluate(cmds)
           THEN \E i \in 1 .. n - 1 : Flushes(cmds[i], t)
           ELSE k \in cflags}

Covers(n) == \A t \in Tables : \A k \in Tracked(n, t) :
                 <<t, k>> \in Executed(kernel, cmds)[n - 1].to => <<t, k>> \in cache

(* Only an index has the rules of the cache kept up to date.               *)
UInv ==
    /\ stage \in {"idle", "update"} /\ cgen = "current" => "UPDATE" \notin cflags
    /\ stage \in {"evaluate", "netlink", "commit"} /\ "UPDATE" \in cflags => HasIndex(cmds)
    /\ stage = "commit" /\ (\E i \in 1 .. next - 1 : Indexed(cmds[i])) => made.changed

LoadInv ==
    stage = "evaluate" /\ "FLUSHED" \notin CacheEvaluate(cmds) => CacheEvaluate(cmds) \subseteq cflags

GoneInv ==
    stage = "evaluate" /\ errs = 0 =>
        \A t \in Tables : GoneAt(cmds, next, t) => <<t, "TABLE">> \notin cache

(* What is kept while a batch is evaluated.                                *)
EInv == /\ LoadInv /\ GoneInv
        /\ stage = "evaluate" /\ alone /\ errs = 0 /\ Accepts(kernel, cmds) => Covers(next)

NothingForgotten == BlocksLast /\ FlushesFirst

(* A transaction goes from ruleset to ruleset.                             *)
Transactions == [ok : BOOLEAN, to : SUBSET (Tables \X Kinds), changed : BOOLEAN]

LEMMA ExecutedIs ==
    ASSUME NEW b \in Batches, NEW R \in SUBSET (Tables \X Kinds)
    PROVE  /\ Executed(R, b) \in [0 .. Len(b) -> Transactions]
           /\ Executed(R, b)[0] = Begun(R)
           /\ \A i \in 1 .. Len(b) : Executed(R, b)[i] = Applied(Executed(R, b)[i - 1], b[i])
  <1> DEFINE n == Len(b)
             F == [i \in 1 .. n |-> [x \in Transactions |-> Applied(x, b[i])]]
             Is(g) == g = [i \in 0 .. n |-> IF i = 0 THEN Begun(R) ELSE Applied(g[i - 1], b[i])]
             E == CHOOSE g : Is(g)
  <1>1. n \in Nat /\ DOMAIN b = 1 .. n
    BY BatchLength
  <1>2. Begun(R) \in Transactions
    BY DEF Begun, Transactions
  <1>3. ASSUME NEW i \in 1 .. n, NEW x \in Transactions PROVE Applied(x, b[i]) \in Transactions
    <2>1. b[i] \in Command /\ (b[i].op = "ADD" => b[i].obj \in Added)
      BY <1>1, CommandParts
    <2>2. x.to \in SUBSET (Tables \X Kinds) /\ x.ok \in BOOLEAN /\ x.changed \in BOOLEAN
      BY DEF Transactions
    <2>3. Leaves(b[i], x.to) \in SUBSET (Tables \X Kinds)
      BY <2>1, <2>2, LeavesType
    <2> QED
      BY <2>2, <2>3 DEF Applied, Transactions, Counts
  <1>4. F \in [1 .. n -> [Transactions -> Transactions]]
    BY <1>3
  <1>5. PICK g \in [0 .. n -> Transactions] : Steps(g, n, Begun(R), F)
    <2> HIDE DEF n, F
    <2> QED
      BY <1>1, <1>2, <1>4, Recursion
  <1>6. Is(g)
    <2>1. \A i \in 0 .. n : i # 0 => i \in 1 .. n /\ i - 1 \in 0 .. n
      BY <1>1
    <2>2. \A i \in 0 .. n : i # 0 => F[i][g[i - 1]] = Applied(g[i - 1], b[i])
      BY <1>5, <2>1
    <2>3. g = [i \in 0 .. n |-> IF i = 0 THEN Begun(R) ELSE F[i][g[i - 1]]]
      BY <1>5 DEF Steps
    <2>4. [i \in 0 .. n |-> IF i = 0 THEN Begun(R) ELSE F[i][g[i - 1]]]
            = [i \in 0 .. n |-> IF i = 0 THEN Begun(R) ELSE Applied(g[i - 1], b[i])]
      BY <2>2
    <2> QED
      BY <2>3, <2>4
  <1>7. Is(E)
    <2> HIDE DEF Is
    <2> QED
      BY <1>6
  <1>8. Executed(R, b) = E
    BY DEF Executed
  <1> DEFINE S == {k \in Nat : k \in 0 .. n => E[k] \in Transactions}
  <1>9. \A i \in 0 .. n : E[i] = IF i = 0 THEN Begun(R) ELSE Applied(E[i - 1], b[i])
    <2> HIDE DEF E, n
    <2> QED
      BY <1>7
  <1>10. 0 .. n \subseteq S
    <2>1. 0 \in S
      BY <1>1, <1>2, <1>9
    <2>2. ASSUME NEW k \in 0 .. n - 1, k \in S PROVE k + 1 \in S
      <3>1. k \in 0 .. n /\ k + 1 \in 1 .. n /\ k + 1 \in 0 .. n /\ k + 1 # 0 /\ (k + 1) - 1 = k
        BY <1>1
      <3>2. E[k] \in Transactions
        BY <2>2, <3>1
      <3>3. E[k + 1] = Applied(E[k], b[k + 1])
        BY <1>9, <3>1
      <3>4. E[k + 1] \in Transactions
        BY <1>3, <3>1, <3>2, <3>3
      <3> HIDE DEF E
      <3> QED
        BY <3>1, <3>4
    <2> HIDE DEF S, n
    <2> QED
      BY <1>1, <2>1, <2>2, InductionTo
  <1>11. E = [i \in 0 .. n |-> E[i]]
    <2> HIDE DEF E, n
    <2> QED
      BY <1>7
  <1>12. E \in [0 .. n -> Transactions]
    <2>1. \A i \in 0 .. n : E[i] \in Transactions
      BY <1>10
    <2> HIDE DEF E
    <2> QED
      BY <1>11, <2>1
  <1>13. 0 \in 0 .. n /\ \A i \in 1 .. n : i \in 0 .. n /\ i # 0
    BY <1>1
  <1> HIDE DEF E
  <1> QED
    BY <1>8, <1>9, <1>12, <1>13

(* When all goes well, each command finds what it needs in what those      *)
(* before it leave.                                                        *)
LEMMA AcceptsEach ==
    ASSUME NEW b \in Batches, NEW R \in SUBSET (Tables \X Kinds), Accepts(R, b), NEW i \in DOMAIN b
    PROVE  Needs(b[i]) \subseteq Executed(R, b)[i - 1].to
  <1> DEFINE n == Len(b)
             E == Executed(R, b)
             S == {k \in Nat : k \in 0 .. n => E[n - k].ok}
  <1>1. n \in Nat /\ DOMAIN b = 1 .. n
    BY BatchLength
  <1>2. \A j \in 1 .. n : E[j] = Applied(E[j - 1], b[j])
    BY ExecutedIs
  <1>3. ASSUME NEW j \in 1 .. n, E[j].ok PROVE E[j - 1].ok /\ Needs(b[j]) \subseteq E[j - 1].to
    <2>1. Applied(E[j - 1], b[j]).ok
      BY <1>2, <1>3
    <2> HIDE DEF E
    <2> QED
      BY <2>1 DEF Applied
  <1>4. 0 \in S
    BY <1>1 DEF Accepts
  <1>5. ASSUME NEW k \in 0 .. n - 1, k \in S PROVE k + 1 \in S
    <2>1. k \in 0 .. n /\ n - k \in 1 .. n /\ (n - k) - 1 = n - (k + 1)
      BY <1>1
    <2>2. E[n - k].ok
      BY <1>5, <2>1
    <2>3. E[n - (k + 1)].ok
      BY <1>3, <2>1, <2>2
    <2> HIDE DEF E
    <2> QED
      BY <2>3
  <1>6. 0 .. n \subseteq S
    <2> HIDE DEF S, n
    <2> QED
      BY <1>1, <1>4, <1>5, InductionTo
  <1>7. n - i \in 0 .. n /\ n - (n - i) = i /\ i \in 1 .. n
    BY <1>1
  <1>8. E[i].ok
    <2>1. n - i \in S
      BY <1>6, <1>7
    <2> HIDE DEF E, n
    <2> QED
      BY <1>7, <2>1
  <1> QED
    BY <1>3, <1>7, <1>8

(* The flags of a command are asked for, or those of a replace behind it.  *)
LEMMA FlagsAsked ==
    ASSUME NEW b \in Batches, NEW i \in DOMAIN b
    PROVE  FlagsOf(b[i]) \cap Kinds \subseteq CacheEvaluate(b)
  <1> DEFINE T == {k \in DOMAIN b : b[k].op = "REPLACE"}
  <1>1. Len(b) \in Nat /\ DOMAIN b = 1 .. Len(b)
    BY BatchLength
  <1>2. CASE \A k \in DOMAIN b : k > i => b[k].op # "REPLACE"
    BY <1>2 DEF CacheEvaluate
  <1>3. CASE ~\A k \in DOMAIN b : k > i => b[k].op # "REPLACE"
    <2>1. T # {} /\ T \in SUBSET (0 .. Len(b))
      BY <1>1, <1>3
    <2>2. PICK m \in T : \A k \in T : k =< m
      <3> HIDE DEF T
      <3> QED
        BY <1>1, <2>1, GreatestNumber
    <2>3. m \in DOMAIN b /\ b[m].op = "REPLACE" /\ \A k \in DOMAIN b : k > m => b[k].op # "REPLACE"
      BY <1>1, <2>2
    <2>4. FlagsOf(b[m]) = Kinds
      BY <2>3 DEF FlagsOf, Full
    <2>5. Kinds \subseteq CacheEvaluate(b)
      BY <2>3, <2>4 DEF CacheEvaluate
    <2> QED
      BY <2>5
  <1> QED
    BY <1>2, <1>3

(* What a command looks up it asks for, and the kernel needs it as well.   *)
LEMMA LooksUpIs ==
    ASSUME NEW b \in Batches, NEW i \in DOMAIN b
    PROVE  /\ LooksUp(b, b[i]) \subseteq {"TABLE", "CHAIN", "SET", "RULE"}
           /\ "RULE" \in LooksUp(b, b[i]) => HasIndex(b)
           /\ LooksUp(b, b[i]) \subseteq FlagsOf(b[i])
           /\ {b[i].tbl} \X LooksUp(b, b[i]) \subseteq Needs(b[i])
  <1> DEFINE c == b[i]
  <1>1. /\ c \in Command
        /\ c.op = "ADD" => c.obj \in Added
        /\ c.obj = "RULE INDEX" => c.op = "ADD"
        /\ c.op = "REPLACE" => c.obj = "RULE"
        /\ c.op = "RENAME" => c.obj = "CHAIN"
    BY CommandParts, BatchesAssumption
  <1> HIDE DEF c
  <1> USE DEF Chain, Set, Elems, Rule, Full, Kinds
  <1>2. CASE c.op = "ADD"
    <2>1. /\ Lookups(c) = LookupsAdd(c.obj) /\ FlagsOf(c) = FlagsAdd(c.obj)
          /\ Needs(c) = {c.tbl} \X NeedsAdd(c.obj)
      BY <1>2 DEF Lookups, FlagsOf, Needs
    <2>2. LooksUp(b, c) \subseteq LookupsAdd(c.obj) \cup
             (IF HasIndex(b) THEN CASE c.obj \in {"RULE", "RULE @SET"} -> Chain
                                    [] c.obj = "RULE INDEX" -> Rule [] OTHER -> {} ELSE {})
      BY <1>2, <2>1 DEF LooksUp
    <2>3. LooksUp(b, c) \subseteq NeedsAdd(c.obj) /\ LooksUp(b, c) \subseteq FlagsAdd(c.obj)
      BY <2>2 DEF LookupsAdd, NeedsAdd, FlagsAdd
    <2>4. /\ LooksUp(b, c) \subseteq {"TABLE", "CHAIN", "SET", "RULE"}
          /\ "RULE" \in LooksUp(b, c) => HasIndex(b)
      BY <2>2 DEF LookupsAdd
    <2> QED
      BY <2>1, <2>3, <2>4 DEF c
  <1>3. CASE c.op = "REPLACE"
    <2>1. LooksUp(b, c) = IF HasIndex(b) THEN Rule ELSE {}
      BY <1>3, <1>1 DEF LooksUp, Lookups
    <2>2. Needs(c) = {c.tbl} \X Rule /\ FlagsOf(c) = Kinds
      BY <1>1, <1>3 DEF Needs, NeedsOther, FlagsOf
    <2> QED
      BY <2>1, <2>2 DEF c
  <1>4. CASE c.op \notin {"ADD", "REPLACE"}
    <2>1. LooksUp(b, c) = Lookups(c)
      BY <1>1, <1>4 DEF LooksUp
    <2>2. Needs(c) = {c.tbl} \X NeedsOther(c.obj)
      BY <1>4 DEF Needs
    <2>3. SUFFICES /\ Lookups(c) \subseteq Chain \cup Set
                   /\ Lookups(c) \subseteq FlagsOf(c) /\ Lookups(c) \subseteq NeedsOther(c.obj)
      BY <2>1, <2>2 DEF c
    <2>4. CASE c.op \in {"DELETE", "GET"} /\ c.obj = "ELEMENTS"
      <3>1. Lookups(c) = Set /\ NeedsOther(c.obj) = Elems
        BY <2>4 DEF Lookups, NeedsOther
      <3>2. Set \subseteq FlagsOf(c)
        BY <2>4 DEF FlagsOf
      <3> QED
        BY <3>1, <3>2
    <2>5. CASE c.op = "LIST"
      <3>1. Lookups(c) = LookupsList(c.obj) /\ FlagsOf(c) = Kinds \cup {"REFRESH"}
        BY <2>5 DEF Lookups, FlagsOf
      <3>2. LookupsList(c.obj) \subseteq NeedsOther(c.obj)
        BY DEF LookupsList, NeedsOther
      <3>3. LookupsList(c.obj) \subseteq Chain \cup Set
        BY DEF LookupsList
      <3> QED
        BY <3>1, <3>2, <3>3
    <2>6. CASE c.op = "RESET"
      <3>1. Lookups(c) = LookupsReset(c.obj) /\ FlagsOf(c) = {"TABLE"}
        BY <2>6 DEF Lookups, FlagsOf
      <3>2. LookupsReset(c.obj) \subseteq NeedsOther(c.obj)
        BY DEF LookupsReset, NeedsOther
      <3>3. LookupsReset(c.obj) \subseteq {"TABLE"}
        BY DEF LookupsReset
      <3> QED
        BY <3>1, <3>2, <3>3
    <2>7. CASE c.op = "FLUSH" /\ c.obj = "SET"
      <3>1. Lookups(c) = Set /\ FlagsOf(c) = Set /\ NeedsOther(c.obj) = Set
        BY <2>7 DEF Lookups, LookupsFlush, FlagsOf, NeedsOther
      <3> QED
        BY <3>1
    <2>8. CASE c.op = "FLUSH" /\ c.obj # "SET"
      BY <2>8 DEF Lookups, LookupsFlush
    <2>9. CASE c.op = "RENAME"
      <3>1. Lookups(c) = Chain /\ FlagsOf(c) = Chain /\ NeedsOther(c.obj) = Chain
        BY <1>1, <2>9 DEF Lookups, LookupsRename, FlagsOf, NeedsOther
      <3> QED
        BY <3>1
    <2>10. CASE c.op \notin {"LIST", "RESET", "FLUSH", "RENAME"}
                 /\ ~(c.op \in {"DELETE", "GET"} /\ c.obj = "ELEMENTS")
      BY <1>4, <2>10 DEF Lookups
    <2> QED
      BY <2>4, <2>5, <2>6, <2>7, <2>8, <2>9, <2>10
  <1> QED
    BY <1>2, <1>3, <1>4

(* A table that is gone stays so until it is added, and one behind its     *)
(* block until it is deleted.                                              *)
LEMMA GoneStep ==
    ASSUME NEW b, NEW n \in Nat \ {0}, NEW t, GoneAt(b, n + 1, t)
    PROVE  Removes(b[n], t) \/ (GoneAt(b, n, t) /\ ~(b[n].op = "ADD" /\ b[n].tbl = t))
  <1>1. PICK k \in 1 .. n : /\ Removes(b[k], t)
                            /\ \A m \in k + 1 .. n : b[m].op = "ADD" => b[m].tbl # t
    BY DEF GoneAt
  <1>2. CASE k = n
    BY <1>1, <1>2
  <1>3. CASE k # n
    <2>1. k \in 1 .. n - 1 /\ n \in k + 1 .. n /\ \A m \in k + 1 .. n - 1 : m \in k + 1 .. n
      BY <1>3
    <2> QED
      BY <1>1, <2>1 DEF GoneAt
  <1> QED
    BY <1>2, <1>3

LEMMA BlockStep ==
    ASSUME NEW b, NEW n \in Nat \ {0}, NEW t, ~Removes(b[n], t),
           BehindBlock(b, n, t) \/ (Merges(b, n) /\ b[n].tbl = t)
    PROVE  BehindBlock(b, n + 1, t)
  <1>1. (n + 1) - 1 = n /\ n \in 1 .. n /\ n + 1 .. n = {}
    OBVIOUS
  <1>2. CASE Merges(b, n) /\ b[n].tbl = t
    BY <1>1, <1>2 DEF BehindBlock
  <1>3. CASE BehindBlock(b, n, t)
    <2>1. PICK i \in 1 .. n - 1 : /\ Merges(b, i) /\ b[i].tbl = t
                                  /\ \A k \in i + 1 .. n - 1 : ~Removes(b[k], t)
      BY <1>3 DEF BehindBlock
    <2>2. i \in 1 .. n /\ \A k \in i + 1 .. n : k = n \/ k \in i + 1 .. n - 1
      OBVIOUS
    <2>3. \A k \in i + 1 .. n : ~Removes(b[k], t)
      BY <2>1, <2>2
    <2> QED
      BY <1>1, <2>1, <2>2, <2>3 DEF BehindBlock
  <1> QED
    BY <1>2, <1>3

(* What a command leaves, of a ruleset the cache covers, is in the cache   *)
(* when the command was evaluated.                                         *)
LEMMA CachedCovers ==
    ASSUME NEW c \in Command, NEW R, NEW t, NEW k \in {"TABLE", "CHAIN", "SET", "RULE"},
           c.op = "ADD" => c.obj \in Added, c.obj = "BLOCK" => c.op = "ADD",
           k = "RULE" => "UPDATE" \in cflags,
           <<t, k>> \in Leaves(c, R),
           <<t, k>> \in R => <<t, k>> \in cache,
           c.obj = "BLOCK" /\ c.tbl = t /\ k # "TABLE" => <<t, "TABLE">> \notin cache
    PROVE  <<t, k>> \in Cached(c)
  <1>1. CASE c.op = "ADD"
    <2>1. <<t, k>> \in R \/ (t = c.tbl /\ k \in Makes(c.obj))
      BY <1>1 DEF Leaves
    <2>2. cache \subseteq Cached(c)
      BY <1>1 DEF Cached
    <2>3. CASE t = c.tbl /\ k \in Makes(c.obj)
      <3>1. CASE c.obj \in {"TABLE", "CHAIN", "SET"}
        BY <1>1, <2>3, <3>1 DEF Makes, Cached
      <3>2. CASE c.obj = "BLOCK"
        <4>1. CASE k = "TABLE"
          BY <1>1, <2>3, <3>2, <4>1 DEF Cached, Has
        <4>2. CASE k # "TABLE"
          BY <1>1, <2>3, <3>2, <4>2 DEF Cached, Has
        <4> QED
          BY <4>1, <4>2
      <3>3. CASE c.obj = "ELEMENTS"
        BY <2>3, <3>3 DEF Makes
      <3>4. CASE c.obj \in {"RULE", "RULE @SET", "RULE INDEX"}
        <4>1. k = "RULE"
          BY <2>3, <3>4 DEF Makes
        <4> QED
          BY <1>1, <2>3, <3>4, <4>1 DEF Cached
      <3> QED
        BY <1>1, <3>1, <3>2, <3>3, <3>4 DEF Added
    <2> QED
      BY <2>1, <2>2, <2>3
  <1>2. CASE c.op # "ADD"
    <2>1. <<t, k>> \in cache
      BY <1>2 DEF Leaves
    <2>2. CASE c.op = "DELETE" /\ c.obj = "TABLE"
      <3>1. Takes(c.op, c.obj) = Kinds /\ k \in Kinds
        BY <2>2 DEF Takes, Kinds
      <3>2. t # c.tbl
        BY <1>2, <2>2, <3>1 DEF Leaves
      <3>3. Cached(c) = cache \ Of(c.tbl)
        BY <2>2 DEF Cached
      <3> QED
        BY <2>1, <3>2, <3>3 DEF Of
    <2>3. CASE c.op = "FLUSH" /\ c.obj = "SET"
      BY <2>1, <2>3 DEF Cached
    <2>4. CASE ~(c.op = "DELETE" /\ c.obj = "TABLE") /\ ~(c.op = "FLUSH" /\ c.obj = "SET")
      BY <1>2, <2>1, <2>4 DEF Cached
    <2> QED
      BY <2>2, <2>3, <2>4
  <1> QED
    BY <1>1, <1>2

(* What is true of the next command while a batch is evaluated.            *)
LEMMA NextCommand ==
    ASSUME TInv, stage = "evaluate", next <= Len(cmds)
    PROVE  /\ cmds \in Batches /\ Len(cmds) \in Nat /\ DOMAIN cmds = 1 .. Len(cmds)
           /\ next \in DOMAIN cmds /\ next \in Nat \ {0} /\ errs \in Nat
           /\ cmds[next] \in Command
           /\ cmds[next].op = "ADD" => cmds[next].obj \in Added
           /\ cmds[next].obj = "BLOCK" => cmds[next].op = "ADD"
           /\ kernel \in SUBSET (Tables \X Kinds)
  <1>1. cmds \in Batches /\ Len(cmds) \in Nat /\ DOMAIN cmds = 1 .. Len(cmds)
    BY BatchLength DEF TInv, StageOK
  <1>2. next \in 1 .. Len(cmds) + 1 /\ errs \in 0 .. Len(cmds) + 1
    BY DEF TInv, TypeOK
  <1>3. next \in DOMAIN cmds /\ next \in Nat \ {0} /\ errs \in Nat
    BY <1>1, <1>2
  <1>4. kernel \in SUBSET (Tables \X Kinds)
    BY RulesetIs DEF TInv, TypeOK
  <1> QED
    BY <1>1, <1>3, <1>4, CommandParts, BatchesAssumption

LEMMA UpdateLooksUp ==
    ASSUME TInv, UInv, GoneInv, BlocksLast, stage = "evaluate", errs = 0, next <= Len(cmds)
    PROVE  LookupsUpdate(cmds[next]) \subseteq LooksUp(cmds, cmds[next])
  <1> DEFINE c == cmds[next]
  <1>1. CASE "UPDATE" \notin cflags
    BY <1>1 DEF LookupsUpdate
  <1>2. CASE "UPDATE" \in cflags
    <2>1. HasIndex(cmds)
      BY <1>2 DEF UInv
    <2>2. c.obj = "BLOCK" => ~Has(cache, c.tbl, "TABLE")
      <3>1. SUFFICES ASSUME c.obj = "BLOCK" PROVE ~Has(cache, c.tbl, "TABLE")
        OBVIOUS
      <3>2. ~Merges(cmds, next)
        BY <2>1, NextCommand DEF BlocksLast
      <3>3. GoneAt(cmds, next, c.tbl)
        BY <3>1, <3>2 DEF Merges
      <3>4. c.tbl \in Tables
        BY NextCommand DEF Command
      <3> QED
        BY <3>3, <3>4 DEF GoneInv, Has
    <2> HIDE DEF c
    <2>3. CASE c.op = "ADD" /\ c.obj \in {"RULE", "RULE @SET"}
      <3>1. LookupsUpdate(c) = Chain
        BY <1>2, <2>3 DEF LookupsUpdate
      <3>2. Chain \subseteq LooksUp(cmds, c)
        BY <2>1, <2>3 DEF LooksUp
      <3> QED
        BY <3>1, <3>2 DEF c
    <2>4. CASE (c.op = "ADD" /\ c.obj = "RULE INDEX") \/ c.op = "REPLACE"
      <3>1. LookupsUpdate(c) = Rule
        <4>1. CASE c.op = "ADD" /\ c.obj = "RULE INDEX"
          BY <1>2, <4>1 DEF LookupsUpdate
        <4>2. CASE c.op = "REPLACE"
          <5>1. c.op # "ADD" /\ c.obj # "BLOCK"
            BY <4>2, NextCommand DEF c
          <5> QED
            BY <1>2, <4>2, <5>1 DEF LookupsUpdate
        <4> QED
          BY <2>4, <4>1, <4>2
      <3>2. Rule \subseteq LooksUp(cmds, c)
        BY <2>1, <2>4 DEF LooksUp
      <3> QED
        BY <3>1, <3>2 DEF c
    <2>5. CASE /\ ~(c.op = "ADD" /\ c.obj \in {"RULE", "RULE @SET", "RULE INDEX"})
               /\ c.op # "REPLACE"
      <3>1. LookupsUpdate(c) = {}
        BY <1>2, <2>2, <2>5 DEF LookupsUpdate
      <3> QED
        BY <3>1 DEF c
    <2> QED
      BY <2>3, <2>4, <2>5
  <1> QED
    BY <1>1, <1>2

(* A cache that covers what the commands before leave has what the next    *)
(* one looks up.                                                           *)
LEMMA CoveredIsFound ==
    ASSUME TInv, UInv, LoadInv, GoneInv, BlocksLast, FlushesFirst,
           stage = "evaluate", errs = 0, next <= Len(cmds),
           Accepts(kernel, cmds), Covers(next)
    PROVE  Found(cmds[next])
  <1> DEFINE c == cmds[next]
  <1>1. /\ cmds \in Batches /\ next \in DOMAIN cmds /\ c \in Command
        /\ kernel \in SUBSET (Tables \X Kinds)
    BY NextCommand
  <1>2. /\ LooksUp(cmds, c) \subseteq {"TABLE", "CHAIN", "SET", "RULE"}
        /\ "RULE" \in LooksUp(cmds, c) => HasIndex(cmds)
        /\ LooksUp(cmds, c) \subseteq FlagsOf(c)
        /\ {c.tbl} \X LooksUp(cmds, c) \subseteq Needs(c)
    BY <1>1, LooksUpIs
  <1>3. Needs(c) \subseteq Executed(kernel, cmds)[next - 1].to
    BY <1>1, AcceptsEach
  <1>4. FlagsOf(c) \cap Kinds \subseteq CacheEvaluate(cmds)
    BY <1>1, FlagsAsked
  <1>5. c.tbl \in Tables
    BY <1>1 DEF Command
  <1>6. Lookups(c) \cup LookupsUpdate(c) \subseteq LooksUp(cmds, c)
    BY UpdateLooksUp DEF LooksUp
  <1>7. SUFFICES ASSUME NEW k \in Lookups(c) \cup LookupsUpdate(c) PROVE <<c.tbl, k>> \in cache
    BY DEF Found
  <1>8. k \in LooksUp(cmds, c)
    BY <1>6
  <1>9. <<c.tbl, k>> \in Executed(kernel, cmds)[next - 1].to
    BY <1>2, <1>3, <1>8
  <1>10. k = "RULE" => "UPDATE" \in cflags
    <2>1. "RULE" \notin Lookups(c)
      BY DEF Lookups, LookupsAdd, LookupsList, LookupsReset, LookupsFlush, LookupsRename,
             Set, Chain
    <2>2. "UPDATE" \notin cflags => LookupsUpdate(c) = {}
      BY DEF LookupsUpdate
    <2> QED
      BY <2>1, <2>2
  <1>11. BehindBlock(cmds, next, c.tbl) => k = "TABLE"
    BY <1>1, <1>8 DEF BlocksLast
  <1>12. CASE "FLUSHED" \in CacheEvaluate(cmds)
    <2>1. \E i \in 1 .. next - 1 : Flushes(cmds[i], c.tbl)
      BY <1>1, <1>8, <1>12 DEF FlushesFirst
    <2>2. k \in Tracked(next, c.tbl)
      BY <1>2, <1>8, <1>10, <1>11, <1>12, <2>1 DEF Tracked
    <2> QED
      BY <1>5, <1>9, <2>2 DEF Covers
  <1>13. CASE "FLUSHED" \notin CacheEvaluate(cmds)
    <2>1. k \in cflags
      <3>1. k \in Kinds
        BY <1>2, <1>8 DEF Kinds
      <3> QED
        BY <1>2, <1>4, <1>8, <1>13, <3>1 DEF LoadInv
    <2>2. k \in Tracked(next, c.tbl)
      BY <1>2, <1>8, <1>10, <1>11, <1>13, <2>1 DEF Tracked
    <2> QED
      BY <1>5, <1>9, <2>2 DEF Covers
  <1> QED
    BY <1>12, <1>13

(* Evaluating a command that is found keeps the cache in step.             *)
LEMMA CoversNext ==
    ASSUME TInv, GoneInv, stage = "evaluate", errs = 0, next <= Len(cmds), Covers(next),
           NEW t \in Tables, NEW k \in Tracked(next + 1, t),
           <<t, k>> \in Executed(kernel, cmds)[next].to
    PROVE  <<t, k>> \in Cached(cmds[next])
  <1> DEFINE c == cmds[next]
             R == Executed(kernel, cmds)[next - 1].to
  <1>1. /\ cmds \in Batches /\ next \in DOMAIN cmds /\ c \in Command /\ next \in Nat \ {0}
        /\ c.op = "ADD" => c.obj \in Added
        /\ c.obj = "BLOCK" => c.op = "ADD"
        /\ kernel \in SUBSET (Tables \X Kinds) /\ DOMAIN cmds = 1 .. Len(cmds)
    BY NextCommand
  <1>2. <<t, k>> \in Leaves(c, R)
    <2>1. Executed(kernel, cmds)[next] = Applied(Executed(kernel, cmds)[next - 1], c)
      BY <1>1, ExecutedIs
    <2> QED
      BY <2>1 DEF Applied
  <1>3. /\ k \in {"TABLE", "CHAIN", "SET", "RULE"}
        /\ k = "RULE" => "UPDATE" \in cflags
        /\ BehindBlock(cmds, next + 1, t) => k = "TABLE"
    BY DEF Tracked
  <1>4. ~Removes(c, t) /\ ~Flushes(c, t)
    <2>1. ASSUME Removes(c, t) PROVE FALSE
      <3>1. Takes(c.op, c.obj) = Kinds /\ k \in Kinds /\ c.op = "DELETE" /\ c.obj = "TABLE" /\ c.tbl = t
        BY <1>3, <2>1 DEF Takes, Kinds, Removes
      <3> QED
        BY <1>2, <3>1 DEF Leaves
    <2>2. ASSUME Flushes(c, t) PROVE FALSE
      BY <1>2, <2>2 DEF Leaves, Flushes
    <2> QED
      BY <2>1, <2>2
  <1>5. BehindBlock(cmds, next, t) \/ (Merges(cmds, next) /\ c.tbl = t) => k = "TABLE"
    BY <1>1, <1>3, <1>4, BlockStep
  <1>6. "FLUSHED" \in CacheEvaluate(cmds) => \E i \in 1 .. next - 1 : Flushes(cmds[i], t)
    <2>1. SUFFICES ASSUME "FLUSHED" \in CacheEvaluate(cmds)
                   PROVE  \E i \in 1 .. next - 1 : Flushes(cmds[i], t)
      OBVIOUS
    <2>2. PICK i \in 1 .. (next + 1) - 1 : Flushes(cmds[i], t)
      BY <2>1 DEF Tracked
    <2>3. i # next
      BY <1>4, <2>2
    <2> QED
      BY <1>1, <2>2, <2>3
  <1>7. k \in Tracked(next, t)
    BY <1>3, <1>5, <1>6 DEF Tracked
  <1>8. <<t, k>> \in R => <<t, k>> \in cache
    BY <1>7 DEF Covers
  <1>9. c.obj = "BLOCK" /\ c.tbl = t /\ k # "TABLE" => <<t, "TABLE">> \notin cache
    <2>1. SUFFICES ASSUME c.obj = "BLOCK", c.tbl = t, k # "TABLE" PROVE <<t, "TABLE">> \notin cache
      OBVIOUS
    <2>2. GoneAt(cmds, next, t)
      BY <1>5, <2>1 DEF Merges
    <2> QED
      BY <2>2 DEF GoneInv
  <1> HIDE DEF c, R
  <1>10. <<t, k>> \in Cached(c)
    BY <1>1, <1>2, <1>3, <1>8, <1>9, CachedCovers
  <1> QED
    BY <1>10 DEF c

LEMMA StepUpdates == NoDryRuns /\ TInv /\ CInv /\ UInv /\ [Next]_vars => UInv'
  <1> SUFFICES ASSUME NoDryRuns, TInv, CInv, UInv, [Next]_vars PROVE UInv'
    OBVIOUS
  <1> USE DEF UInv
  <1>1. CASE Commit
    BY <1>1 DEF Commit, Older
  <1>2. ASSUME NEW b \in Batches, NEW dry \in DryRuns, NEW bad \in BOOLEAN, Parse(b, dry, bad)
        PROVE  UInv'
    BY <1>2 DEF Parse, cvars
  <1>3. CASE UpdateCache
    <2>1. stage = "update" /\ stage' = "evaluate" /\ cmds' = cmds
      BY <1>3 DEF UpdateCache
    <2>2. CASE Usable(CacheEvaluate(cmds))
      BY <1>3, <2>1, <2>2 DEF UpdateCache, Usable, cvars
    <2>3. CASE ~Usable(CacheEvaluate(cmds))
      <3>1. "UPDATE" \in cflags' => "UPDATE" \in CacheEvaluate(cmds)
        BY <1>3, <2>3 DEF UpdateCache, Loaded
      <3>2. "UPDATE" \in CacheEvaluate(cmds) => HasIndex(cmds)
        <4>1. \A c : "UPDATE" \in FlagsOf(c) => c.obj = "RULE INDEX"
          BY DEF FlagsOf, FlagsAdd, Chain, Set, Elems, Rule, Full, Kinds
        <4> QED
          BY <4>1 DEF CacheEvaluate, HasIndex, Indexed
      <3> QED
        BY <2>1, <3>1, <3>2
    <2> QED
      BY <2>2, <2>3
  <1>4. CASE Evaluate \/ EvaluateDone \/ DoCommand
    BY <1>4 DEF Evaluate, EvaluateDone, Evaluated, DoCommand, cvars
  <1>5. CASE Send
    <2>1. stage = "netlink" /\ stage' = "commit" /\ next' = 1 /\ UNCHANGED <<cflags, cmds>>
      BY <1>5 DEF Send, cvars
    <2> QED
      BY <2>1
  <1>6. CASE ApplyNext
    <2>1. /\ stage = "commit" /\ stage' = "commit" /\ next' = next + 1 /\ next \in Nat
          /\ UNCHANGED <<cvars, cmds>> /\ next \in DOMAIN cmds /\ cmds \in Batches
      BY <1>6, BatchLength DEF ApplyNext, TInv, TypeOK, StageOK
    <2>2. made.changed => made'.changed
      BY <1>6 DEF ApplyNext, Applied
    <2>3. Indexed(cmds[next]) => made'.changed
      <3>1. SUFFICES ASSUME Indexed(cmds[next]) PROVE made'.changed
        OBVIOUS
      <3>2. cmds[next].op = "ADD" /\ cmds[next].obj = "RULE INDEX"
        BY <2>1, <3>1, CommandParts DEF Indexed
      <3>3. Sends(cmds[next]) /\ Counts(cmds[next])
        BY <3>2 DEF Sends, Counts
      <3> QED
        BY <1>6, <3>3 DEF ApplyNext, Applied
    <2>4. \A i \in 1 .. next' - 1 : i = next \/ i \in 1 .. next - 1
      BY <2>1
    <2>5. (\E i \in 1 .. next - 1 : Indexed(cmds[i])) => made.changed
      BY <2>1
    <2>6. (\E i \in 1 .. next' - 1 : Indexed(cmds[i])) => made'.changed
      BY <2>2, <2>3, <2>4, <2>5
    <2>7. "UPDATE" \in cflags' => HasIndex(cmds)'
      BY <2>1 DEF cvars, HasIndex
    <2> QED
      BY <2>1, <2>6, <2>7 DEF Indexed
  <1>7. CASE Netlink
    <2>1. /\ stage = "commit" /\ stage' = "idle" /\ check = FALSE /\ cflags' = cflags
          /\ next = Len(cmds) + 1 /\ DOMAIN cmds = 1 .. next - 1
      <3>1. Len(cmds) \in Nat /\ DOMAIN cmds = 1 .. Len(cmds)
        BY BatchLength DEF TInv, TypeOK
      <3> QED
        BY <1>7, <3>1 DEF Netlink, Done, CInv, TInv, TypeOK
    <2>2. SUFFICES ASSUME cgen' = "current" PROVE "UPDATE" \notin cflags
      BY <2>1
    <2>3. ~made.changed
      BY <1>7, <2>1, <2>2 DEF Netlink, Older
    <2> QED
      BY <2>1, <2>3 DEF HasIndex
  <1>8. CASE Fail
    BY <1>8 DEF Fail, Done
  <1>9. CASE UNCHANGED vars
    BY <1>9 DEF vars, cvars
  <1> QED
    BY <1>1, <1>2, <1>3, <1>4, <1>5, <1>6, <1>7, <1>8, <1>9
       DEF Next, UpdateCacheFails, EvaluateFails, DoCommandFails, NetlinkFails

LEMMA SameBatch ==
    ASSUME UNCHANGED <<kernel, cmds>>
    PROVE  /\ Executed(kernel, cmds)' = Executed(kernel, cmds)
           /\ Accepts(kernel, cmds)' <=> Accepts(kernel, cmds)
           /\ CacheEvaluate(cmds)' = CacheEvaluate(cmds)
  <1>1. Executed(kernel, cmds)' = Executed(kernel, cmds)
    OBVIOUS
  <1>2. CacheEvaluate(cmds)' = CacheEvaluate(cmds)
    OBVIOUS
  <1> QED
    BY <1>1, <1>2 DEF Accepts

LEMMA LoadStarts == TInv /\ CInv /\ UpdateCache => EInv'
  <1> SUFFICES ASSUME TInv, CInv, UpdateCache PROVE EInv'
    OBVIOUS
  <1> DEFINE f == CacheEvaluate(cmds)
  <1>1. /\ stage = "update" /\ stage' = "evaluate" /\ next' = 1 /\ cmds' = cmds /\ kernel' = kernel
        /\ cmds \in Batches /\ kernel \in SUBSET (Tables \X Kinds)
    BY RulesetIs DEF UpdateCache, TInv, TypeOK, StageOK
  <1>2. "FLUSHED" \notin f => f \subseteq cflags'
    BY DEF UpdateCache, Usable, Loaded, cvars
  <1>3. LoadInv'
    BY <1>1, <1>2 DEF LoadInv, CacheEvaluate
  <1>4. GoneInv'
    <2>1. SUFFICES ASSUME NEW t \in Tables, GoneAt(cmds, next, t)' PROVE FALSE
      BY DEF GoneInv
    <2>2. next' - 1 = 0 /\ 1 .. 0 = {}
      BY <1>1
    <2> QED
      BY <2>1, <2>2 DEF GoneAt
  <1>5. Executed(kernel, cmds)[0].to = kernel
    <2>1. Executed(kernel, cmds)[0] = Begun(kernel)
      BY <1>1, ExecutedIs
    <2> QED
      BY <2>1 DEF Begun
  <1>6. ASSUME NEW t \in Tables, NEW k \in Kinds \cap cflags', <<t, k>> \in kernel
        PROVE  <<t, k>> \in cache'
    <2>1. CASE Usable(f)
      BY <1>1, <1>6, <2>1 DEF UpdateCache, Usable, cvars, CInv, Agree
    <2>2. CASE ~Usable(f)
      BY <1>6, <2>2 DEF UpdateCache
    <2> QED
      BY <2>1, <2>2
  <1>7. Covers(next)'
    <2>1. SUFFICES ASSUME NEW t \in Tables, NEW k \in Tracked(next, t)',
                          <<t, k>> \in Executed(kernel, cmds)[0].to
                   PROVE  <<t, k>> \in cache'
      <3>1. next' - 1 = 0 /\ kernel' = kernel /\ cmds' = cmds
        BY <1>1
      <3> QED
        BY <3>1 DEF Covers
    <2>2. k \in Kinds
      BY DEF Tracked, Kinds
    <2>3. k \in cflags'
      BY <1>1 DEF Tracked
    <2> QED
      BY <1>5, <1>6, <2>1, <2>2, <2>3
  <1> QED
    BY <1>3, <1>4, <1>7 DEF EInv

(* What a command adds to the cache is of its table.                       *)
LEMMA AddsToTable ==
    ASSUME NEW c, c.op = "ADD"
    PROVE  \A p \in Cached(c) : p \in cache \/ p[1] = c.tbl
  <1>1. CASE c.obj \in {"TABLE", "CHAIN", "SET"}
    <2>1. Cached(c) = cache \cup {<<c.tbl, c.obj>>}
      BY <1>1 DEF Cached
    <2> QED
      BY <2>1
  <1>2. CASE c.obj = "BLOCK"
    <2>1. Cached(c) \subseteq cache \cup {c.tbl} \X {"TABLE", "CHAIN", "SET", "RULE"}
      BY <1>2 DEF Cached
    <2> QED
      BY <2>1
  <1>3. CASE c.obj \in {"RULE", "RULE @SET", "RULE INDEX"}
    <2>1. Cached(c) \subseteq cache \cup {<<c.tbl, "RULE">>}
      BY <1>3 DEF Cached
    <2> QED
      BY <2>1
  <1>4. CASE c.obj \notin {"TABLE", "CHAIN", "SET", "BLOCK", "RULE", "RULE @SET", "RULE INDEX"}
    <2>1. Cached(c) = cache
      BY <1>4 DEF Cached
    <2> QED
      BY <2>1
  <1> QED
    BY <1>1, <1>2, <1>3, <1>4

(* A command that is evaluated without an error.                           *)
LEMMA EvaluateCovers == NothingForgotten /\ TInv /\ EInv /\ Evaluate => EInv'
  <1> SUFFICES ASSUME NothingForgotten, TInv, EInv, Evaluate PROVE EInv'
    OBVIOUS
  <1> DEFINE c == cmds[next]
  <1>1. /\ stage = "evaluate" /\ next <= Len(cmds) /\ next' = next + 1
        /\ UNCHANGED <<kernel, cflags, stage, cmds, alone>>
    BY DEF Evaluate
  <1>2. next \in Nat \ {0} /\ errs \in Nat /\ c.tbl \in Tables /\ DOMAIN cmds = 1 .. Len(cmds)
    BY <1>1, NextCommand DEF Command
  <1>3. errs' = 0 => errs = 0 /\ cache' = Cached(c)
    <2>1. CASE Found(c)
      BY <2>1 DEF Evaluate
    <2>2. CASE ~Found(c)
      BY <1>2, <2>2 DEF Evaluate
    <2> QED
      BY <2>1, <2>2
  <1>4. LoadInv'
    BY <1>1, SameBatch DEF EInv, LoadInv
  <1>5. GoneInv'
    <2>1. SUFFICES ASSUME errs' = 0, NEW t \in Tables, GoneAt(cmds, next + 1, t)
                   PROVE  <<t, "TABLE">> \notin cache'
      BY <1>1 DEF GoneInv
    <2>2. Removes(c, t) \/ (GoneAt(cmds, next, t) /\ ~(c.op = "ADD" /\ c.tbl = t))
      BY <1>2, <2>1, GoneStep
    <2> HIDE DEF c
    <2>3. CASE Removes(c, t)
      <3>1. c.op = "DELETE" /\ c.obj = "TABLE" /\ c.tbl = t
        BY <2>3 DEF Removes
      <3>2. cache' = cache \ Of(t)
        BY <1>3, <2>1, <3>1 DEF Cached
      <3> QED
        BY <3>2 DEF Of, Kinds
    <2>4. CASE GoneAt(cmds, next, t) /\ ~(c.op = "ADD" /\ c.tbl = t)
      <3>1. <<t, "TABLE">> \notin cache
        <4>1. GoneInv /\ stage = "evaluate" /\ errs = 0
          BY <1>1, <1>3, <2>1 DEF EInv
        <4> QED
          BY <2>4, <4>1 DEF GoneInv
      <3>2. CASE c.op = "ADD"
        <4>1. \A p \in Cached(c) : p \in cache \/ p[1] = c.tbl
          BY <3>2, AddsToTable
        <4>2. c.tbl # t
          BY <2>4, <3>2
        <4> QED
          BY <1>3, <2>1, <3>1, <4>1, <4>2
      <3>3. CASE c.op # "ADD"
        <4>1. Cached(c) \subseteq cache
          BY <3>3 DEF Cached
        <4> QED
          BY <1>3, <2>1, <3>1, <4>1
      <3> QED
        BY <3>2, <3>3
    <2> QED
      BY <2>2, <2>3, <2>4
  <1>6. ASSUME alone, errs' = 0, Accepts(kernel, cmds) PROVE Covers(next)'
    <2>1. Covers(next) /\ GoneInv /\ errs = 0
      BY <1>1, <1>3, <1>6 DEF EInv
    <2>2. ASSUME NEW t \in Tables, NEW k \in Tracked(next + 1, t),
                 <<t, k>> \in Executed(kernel, cmds)[next].to
          PROVE  <<t, k>> \in cache'
      BY <1>1, <1>3, <1>6, <2>1, <2>2, CoversNext
    <2>3. next' - 1 = next
      BY <1>1, <1>2
    <2>4. ASSUME NEW t \in Tables PROVE Tracked(next, t)' = Tracked(next + 1, t)
      BY <1>1 DEF Tracked
    <2> QED
      BY <1>1, <2>2, <2>3, <2>4 DEF Covers
  <1> QED
    BY <1>1, <1>4, <1>5, <1>6, SameBatch DEF EInv

LEMMA StepCovers == NothingForgotten /\ TInv /\ CInv /\ EInv /\ [Next]_vars => EInv'
  <1> SUFFICES ASSUME NothingForgotten, TInv, CInv, EInv, [Next]_vars PROVE EInv'
    OBVIOUS
  <1>1. CASE Commit
    BY <1>1 DEF Commit, EInv, LoadInv, GoneInv
  <1>2. CASE stage' # "evaluate"
    BY <1>2 DEF EInv, LoadInv, GoneInv
  <1>3. CASE UpdateCache
    BY <1>3, LoadStarts
  <1>4. CASE Evaluate
    BY <1>4, EvaluateCovers
  <1>5. CASE UNCHANGED vars
    <2>1. UNCHANGED <<kernel, cmds, cache, cflags, next, errs, stage, alone>>
      BY <1>5 DEF vars, cvars
    <2> QED
      BY <2>1, SameBatch DEF EInv, LoadInv, GoneInv, Covers, Tracked
  <1>6. CASE \E b \in Batches, dry \in DryRuns, bad \in BOOLEAN : Parse(b, dry, bad)
    BY <1>2, <1>6 DEF Parse
  <1>7. CASE EvaluateDone \/ DoCommand \/ Send \/ ApplyNext
    BY <1>2, <1>7 DEF EvaluateDone, DoCommand, Send, ApplyNext
  <1>8. CASE Done
    BY <1>2, <1>8 DEF Done
  <1> QED
    BY <1>1, <1>3, <1>4, <1>5, <1>6, <1>7, <1>8
       DEF Next, UpdateCacheFails, EvaluateFails, DoCommandFails, NetlinkFails, Netlink, Fail

(* cache_evaluate(), cache.c:116-170, against cmd_evaluate(): no batch     *)
(* that the kernel would accept is rejected for an object the cache lacks, *)
(* however long it is and whatever earlier runs left in the cache.  The    *)
(* batches that are left out are those the code does reject: what a table  *)
(* block adds to a cached table, and what a flush of the ruleset keeps the *)
(* cache from loading, is looked up in vain.                               *)
THEOREM NoFalseRejectTheorem == NoDryRuns /\ NothingForgotten /\ Spec => []NoFalseReject
  <1>1. SUFFICES ASSUME NoDryRuns, NothingForgotten PROVE Spec => []NoFalseReject
    OBVIOUS
  <1>2. Init => CInv /\ UInv /\ EInv
    BY InitAgrees DEF Init, UInv, EInv, LoadInv, GoneInv
  <1>3. TInv /\ CInv /\ UInv /\ EInv /\ [Next]_vars => (CInv /\ UInv /\ EInv)'
    BY <1>1, StepAgrees, StepUpdates, StepCovers
  <1>4. TInv /\ CInv /\ UInv /\ EInv => NoFalseReject
    BY <1>1, CoveredIsFound DEF EInv, NoFalseReject, NothingForgotten
  <1> QED
    BY <1>2, <1>3, <1>4, Typed, PTL DEF Spec
=============================================================================
