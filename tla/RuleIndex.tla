----------------------------- MODULE RuleIndex -----------------------------
(***************************************************************************)
(* The location of a rule command: rule_evaluate(), rule_cache_update()    *)
(* and link_rules() of evaluate.c, mnl_nft_rule_add(), _replace() and      *)
(* _del() of mnl.c.                                                        *)
(*                                                                         *)
(* An index counts the rules of the cached chain, which the commands of    *)
(* the batch before it have changed; it is sent as the handle of the rule  *)
(* found, or, for a rule of this batch, as an identifier of the batch.     *)
(* One chain; other processes change it while the batch is evaluated.      *)
(***************************************************************************)
EXTENDS Integers, SequencesExt

CONSTANTS
    Batches,      \* the batches users run; a command is a record of its op,
                  \* of how it names a place ("end", "index" or "handle")
                  \* and of the number n it names it by
    Width,        \* 2^64, the values of handle.index.id
    MaxHandle,    \* bound on the handles the kernel gives out
    MaxRules      \* bound on the rules other processes leave in the chain

Command == [op : {"ADD", "INSERT", "REPLACE", "DELETE", "FLUSH"},
            how : {"end", "index", "handle"}, n : 0 .. Width - 1]

ASSUME BatchesAssumption ==
    /\ Batches \subseteq Seq(Command)
    /\ \A b \in Batches : \A i \in DOMAIN b :
         /\ b[i].op \in {"REPLACE", "DELETE"} => b[i].how = "handle"
         /\ b[i].op = "FLUSH" => b[i].how = "end"
         /\ b[i].how = "handle" => b[i].n > 0
ASSUME BoundsAssumption ==
    {Width, MaxHandle, MaxRules} \subseteq Nat \ {0} /\ MaxRules <= MaxHandle

VARIABLES
    kernel,     \* the handles of the rules of the chain, in order
    top,        \* the last handle given out
    stage,      \* "idle", "load", "evaluate", "send", "commit" or "done"
    cmds,       \* the commands of the batch
    cache,      \* the cached chain: rules of the kernel and of the batch
    next,       \* the command evaluated next
    msgs,       \* what the messages will say of the places
    ids,        \* ids[i]: rule_id of the rule of command i, 0 without one
    ref_id,     \* static ref_id of link_rules()
    meant,      \* what the commands mean: the chain as it was loaded, and
                \* as each command evaluated leaves it (history)
    alone,      \* nobody changed the chain since it was loaded
    result,     \* the chain the batch makes, in which its rules are known by
                \* the commands that made them
    sent,       \* the messages carried out
    ret         \* how the run ended

vars == <<kernel, top, stage, cmds, cache, next, msgs, ids, ref_id, meant, alone,
          result, sent, ret>>

(* A rule of a chain: its handle and the command that made it, 0 if none.  *)
Rule(h, i) == [handle |-> h, cmd |-> i]
Old(hs)    == [j \in DOMAIN hs |-> Rule(hs[j], 0)]

NoPlace == [position |-> 0, position_id |-> 0]

-----------------------------------------------------------------------------
(* cache_evaluate(): are the rules cached and kept up to date?             *)
NeedsUpdate(b) ==
    \E i \in DOMAIN b :
        /\ b[i].op \in {"ADD", "INSERT"} /\ b[i].how # "end"
        /\ \A k \in DOMAIN b : k > i => b[k].op # "REPLACE"

(* handle.index.id: the parser counts from one, zero is no index.          *)
IndexId(c) == IF c.how = "index" THEN (c.n + 1) % Width ELSE 0

(* Mutant: the index counts from zero, as users do.                        *)
ByNumber(L, c) ==
    CASE c.how = "index"  -> {j \in DOMAIN L : j = c.n}
      [] c.how = "handle" -> {j \in DOMAIN L : L[j].handle = c.n}
      [] OTHER            -> {}

(* rule_lookup_by_index() and rule_lookup(): where the rule is that the    *)
(* command refers to.                                                      *)
Lookup(L, c) ==
    CASE c.how = "index"  -> {j \in DOMAIN L : j = IndexId(c)}
      [] c.how = "handle" -> {j \in DOMAIN L : L[j].handle = c.n}
      [] OTHER            -> {}

Refers(c) == c.how = "handle" \/ IndexId(c) # 0

(* link_rules(): a rule of the batch is given an identifier when it is     *)
(* first referred to.  Mutants: each time; always the same.                *)
NeverHas(r) == FALSE
SameId      == 1

HasId(r) == ids[r.cmd] # 0
NextId   == ref_id + 1

(* What the place by rule r is called.  Mutant: always by its handle.      *)
ByHandle(r) == [position |-> r.handle, position_id |-> 0]

Link(r) == IF r.handle # 0 THEN [position |-> r.handle, position_id |-> 0]
                           ELSE [position |-> 0, position_id |-> ids'[r.cmd]]

(* The place a rule goes to: behind or before the one referred to, or to   *)
(* an end of the chain.  The rule of a replace takes the place of another  *)
(* and carries its handle.                                                 *)
Slot(L, op, at) == IF op = "ADD" THEN (IF at = 0 THEN Len(L) ELSE at) + 1
                                 ELSE (IF at = 0 THEN 1 ELSE at)
Put(L, op, at, r) == IF op = "REPLACE" THEN ReplaceAt(L, at, r)
                                       ELSE InsertAt(L, Slot(L, op, at), r)
NewRule(i) == Rule(IF cmds[i].op = "REPLACE" THEN cmds[i].n ELSE 0, i)

(* A chain after command i, at one of some places; zero stands for an end. *)
(* Refused says that there was none.                                       *)
Refused == <<Rule(-1, -1)>>
Carry(L, i, at) ==
    IF L = Refused \/ (cmds[i].op # "FLUSH" /\ at = {}) THEN Refused
    ELSE IF cmds[i].op = "FLUSH" THEN <<>>
    ELSE LET j == CHOOSE k \in at : TRUE
         IN  IF cmds[i].op = "DELETE" THEN RemoveAt(L, j)
                                      ELSE Put(L, cmds[i].op, j, NewRule(i))

(* What the manual says of rule commands, on the chain itself.             *)
MeantPlaces(L, c) ==
    CASE c.how = "index"  -> {j \in DOMAIN L : j = c.n + 1}
      [] c.how = "handle" -> {j \in DOMAIN L : L[j].handle = c.n}
      [] OTHER            -> {0}
Meant(i) == Append(meant, Carry(meant[i], i, MeantPlaces(meant[i], cmds[i])))

-----------------------------------------------------------------------------
Init == /\ \E n \in 0 .. MaxRules : kernel = [j \in 1 .. n |-> j] /\ top = n
        /\ stage = "idle"
        /\ cmds = <<>> /\ cache = <<>> /\ next = 1 /\ msgs = <<>>
        /\ ids = <<>> /\ ref_id = 0
        /\ meant = <<>> /\ alone = FALSE /\ result = <<>> /\ sent = 0 /\ ret = "none"

(* Another process adds a rule somewhere, or deletes one.  Before the load *)
(* it would only make another chain to begin with.                         *)
Commit == /\ stage \in {"evaluate", "send"}
          /\ \/ /\ Len(kernel) < MaxRules /\ top < MaxHandle
                /\ top' = top + 1
                /\ \E j \in 1 .. Len(kernel) + 1 : kernel' = InsertAt(kernel, j, top + 1)
             \/ /\ \E j \in DOMAIN kernel : kernel' = RemoveAt(kernel, j)
                /\ UNCHANGED top
          /\ alone' = FALSE
          /\ UNCHANGED <<stage, cmds, cache, next, msgs, ids, ref_id, meant, result, sent, ret>>

Run(b) == /\ stage = "idle"
          /\ stage' = "load"
          /\ cmds' = b
          /\ next' = 1 /\ msgs' = <<>> /\ ids' = [i \in DOMAIN b |-> 0]
          /\ UNCHANGED <<kernel, top, cache, ref_id, meant, alone, result, sent, ret>>

(* cache_update(): without an index or a handle, rules are not loaded.     *)
Load == /\ stage = "load"
        /\ stage' = "evaluate"
        /\ cache' = IF NeedsUpdate(cmds) THEN Old(kernel) ELSE <<>>
        /\ meant' = <<Old(kernel)>>
        /\ alone' = TRUE
        /\ UNCHANGED <<kernel, top, cmds, next, msgs, ids, ref_id, result, sent, ret>>

(* A command is evaluated to a message that says m of its place.           *)
Evaluate(m) ==
    /\ msgs' = Append(msgs, m)
    /\ next' = next + 1
    /\ meant' = Meant(next)
    /\ UNCHANGED <<kernel, top, stage, cmds, alone, result, sent, ret>>

ByItsHandle(c) == IF c.how = "handle" THEN [NoPlace EXCEPT !.position = c.n] ELSE NoPlace

(* Commands that get past cmd_evaluate() as they are.  The rules that are  *)
(* deleted or flushed stay in the cache.                                   *)
EvaluateOther ==
    /\ stage = "evaluate"
    /\ next <= Len(cmds)
    /\ cmds[next].op \in {"DELETE", "FLUSH"} \/ ~NeedsUpdate(cmds)
    /\ Evaluate(ByItsHandle(cmds[next]))
    /\ UNCHANGED <<cache, ids, ref_id>>

(* rule_cache_update() of a rule that does not refer to another.           *)
EvaluateEnd ==
    /\ stage = "evaluate"
    /\ next <= Len(cmds) /\ NeedsUpdate(cmds)
    /\ cmds[next].op \in {"ADD", "INSERT"} /\ ~Refers(cmds[next])
    /\ cache' = Put(cache, cmds[next].op, 0, NewRule(next))
    /\ Evaluate(NoPlace)
    /\ UNCHANGED <<ids, ref_id>>

(* And of one that does.                                                   *)
EvaluateRef ==
    /\ stage = "evaluate"
    /\ next <= Len(cmds) /\ NeedsUpdate(cmds)
    /\ cmds[next].op \in {"ADD", "INSERT", "REPLACE"} /\ Refers(cmds[next])
    /\ \E at \in Lookup(cache, cmds[next]) :
         LET r     == cache[at]
             fresh == cmds[next].how = "index" /\ r.handle = 0 /\ ~HasId(r)
         IN  /\ cache' = Put(cache, cmds[next].op, at, NewRule(next))
             /\ ids' = IF fresh THEN [ids EXCEPT ![r.cmd] = NextId] ELSE ids
             /\ ref_id' = IF fresh THEN NextId ELSE ref_id
             /\ Evaluate(IF cmds[next].how = "index" THEN Link(r) ELSE ByItsHandle(cmds[next]))

End(r) == stage' = "done" /\ ret' = r

(* The rule referred to is not there: the run fails.                       *)
EvaluateFails ==
    /\ stage = "evaluate"
    /\ next <= Len(cmds) /\ NeedsUpdate(cmds)
    /\ cmds[next].op \in {"ADD", "INSERT", "REPLACE"} /\ Refers(cmds[next])
    /\ Lookup(cache, cmds[next]) = {}
    /\ meant' = Meant(next)
    /\ End("rejected")
    /\ UNCHANGED <<kernel, top, cmds, cache, next, msgs, ids, ref_id, alone, result, sent>>

EvaluateDone == /\ stage = "evaluate"
                /\ next > Len(cmds)
                /\ stage' = "send"
                /\ UNCHANGED <<kernel, top, cmds, cache, next, msgs, ids, ref_id, meant,
                               alone, result, sent, ret>>

-----------------------------------------------------------------------------
(* nf_tables, not part of this repository: where in the chain a message    *)
(* finds its place.  A rule that replaces another is taken to have its     *)
(* handle, as in the cache; the runs do not depend on it.                  *)
Places(L, m) == {j \in DOMAIN L :
    \/ m.position # 0 /\ L[j].handle = m.position
    \/ m.position_id # 0 /\ L[j].cmd # 0 /\ ids[L[j].cmd] = m.position_id}
Said(L, m)   == IF m = NoPlace THEN {0} ELSE Places(L, m)

(* nft_netlink(): the batch is carried out message by message, with nobody *)
(* in between, or refused as a whole.                                      *)
Send == /\ stage = "send"
        /\ stage' = "commit"
        /\ result' = Old(kernel)
        /\ UNCHANGED <<kernel, top, cmds, cache, next, msgs, ids, ref_id, meant, alone, sent, ret>>

Apply == /\ stage = "commit"
         /\ sent < Len(cmds)
         /\ sent' = sent + 1
         /\ result' = Carry(result, sent', Said(result, msgs[sent']))
         /\ UNCHANGED <<kernel, top, stage, cmds, cache, next, msgs, ids, ref_id, meant, alone, ret>>

SendDone == /\ stage = "commit"
            /\ sent = Len(cmds) /\ result # Refused
            /\ kernel' = [j \in DOMAIN result |->
                  IF result[j].handle # 0 THEN result[j].handle ELSE top + result[j].cmd]
            /\ top' = top + Len(cmds)
            /\ End("done")
            /\ UNCHANGED <<cmds, cache, next, msgs, ids, ref_id, meant, alone, result, sent>>

SendFails == /\ stage = "commit"
             /\ sent = Len(cmds) /\ result = Refused
             /\ End("refused")
             /\ UNCHANGED <<kernel, top, cmds, cache, next, msgs, ids, ref_id, meant, alone,
                            result, sent>>

(* One batch is enough: the next one finds the cache out of date.          *)
Done == stage = "done" /\ UNCHANGED vars

Next == \/ Commit
        \/ \E b \in Batches : Run(b)
        \/ Load
        \/ EvaluateOther
        \/ EvaluateEnd
        \/ EvaluateRef
        \/ EvaluateFails
        \/ EvaluateDone
        \/ Send
        \/ Apply
        \/ SendDone
        \/ SendFails
        \/ Done

Spec == Init /\ [][Next]_vars

-----------------------------------------------------------------------------
Succeeded == stage = "done" /\ ret = "done"

(* Properties.                                                             *)

(* The variables hold what the code puts there.                            *)
TypeOK ==
    /\ kernel \in Seq(1 .. MaxHandle + Len(cmds)) /\ top \in Nat
    /\ stage \in {"idle", "load", "evaluate", "send", "commit", "done"}
    /\ cmds \in Batches \cup {<<>>}
    /\ next \in 1 .. Len(cmds) + 1
    /\ Len(msgs) = next - 1
    /\ \A i \in DOMAIN msgs : msgs[i].position = 0 \/ msgs[i].position_id = 0
    /\ \A i, j \in DOMAIN ids : i # j => ids[i] # ids[j] \/ ids[i] = 0
    /\ \A i \in DOMAIN ids : ids[i] \in 0 .. ref_id
    /\ ret \in {"none", "rejected", "refused", "done"}

(* doc/nft.txt:453-458: a batch whose rules are located by handles and by  *)
(* identifiers of the batch makes the chain that its commands, carried out *)
(* one after the other with their indices, make of the chain seen.         *)
IndexMeaning == Succeeded /\ alone => result = Last(meant)

(* And a batch which can be carried out that way is not rejected.          *)
IndexFound ==
    stage = "done" /\ alone /\ ret # "done" => Last(meant) = Refused

(* doc/nft.txt:457-462: when others change the chain after the translation *)
(* was done, the effective index may differ, but a rule still stands by    *)
(* the one it referred to, with nothing between them but rules of later    *)
(* commands of the batch; were that one deleted, the batch is refused.     *)
(* That one was there, and the batch itself does not delete here.          *)
StandsBy ==
    Succeeded /\ (\A i \in DOMAIN cmds : cmds[i].op \notin {"DELETE", "FLUSH"}) =>
      \A i \in DOMAIN cmds : cmds[i].how = "index" =>
        LET L   == meant[i]
            was == L[cmds[i].n + 1]
        IN  /\ L # Refused /\ cmds[i].n < Len(L)
            /\ \E it, me \in DOMAIN result :
                 /\ result[it] = was /\ result[me].cmd = i
                 /\ IF cmds[i].op = "ADD"
                    THEN it < me /\ \A j \in it + 1 .. me - 1 : result[j].cmd > i
                    ELSE me < it /\ \A j \in me + 1 .. it - 1 : result[j].cmd > i
=============================================================================
