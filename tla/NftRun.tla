------------------------------- MODULE NftRun -------------------------------
(***************************************************************************)
(* nft_run_cmd_from_buffer() of libnftables.c: a batch of commands is      *)
(* parsed, the cache is loaded at the level cache_evaluate() deems enough, *)
(* each command is evaluated against the cache and may change it, and the  *)
(* batch is sent to the kernel, which applies all of it or nothing.        *)
(*                                                                         *)
(* cache_update() is one step here, the step NftCache is proved to         *)
(* implement.  A ruleset is the set of the pairs of a table and a kind of  *)
(* object it has: the chains, sets, elements and rules of a table are not  *)
(* told apart, and a command on one of them is a command on all.           *)
(***************************************************************************)
EXTENDS Integers, SequencesExt

CONSTANTS Tables,      \* tables
          Family,      \* Family[t]: the address family of table t
          Batches,     \* the batches of commands users run
          DryRuns      \* the settings of nft_ctx_set_dry_run() users choose

Kinds == {"TABLE", "CHAIN", "SET", "SETELEM", "RULE"}

(* What commands are about.                                                *)
Added   == {"TABLE", "CHAIN", "SET", "ELEMENTS", "RULE", "RULE @SET", "RULE INDEX", "BLOCK"}
Objects == Added \cup {"RULESET", "COUNTERS", "ALL COUNTERS"}
Command == [op : {"ADD", "REPLACE", "DELETE", "GET", "RESET", "LIST", "FLUSH", "RENAME"},
            obj : Objects, tbl : Tables]

ASSUME BatchesAssumption ==
    /\ Batches \subseteq Seq(Command)
    /\ \A b \in Batches : \A i \in DOMAIN b :
          /\ b[i].op = "ADD" => b[i].obj \in Added
          /\ b[i].obj \in {"RULE INDEX", "BLOCK"} => b[i].op = "ADD"
          /\ b[i].op = "REPLACE" => b[i].obj = "RULE"
          /\ b[i].op = "RENAME" => b[i].obj = "CHAIN"
ASSUME DryRunsAssumption == DryRuns \subseteq BOOLEAN /\ DryRuns # {}
ASSUME FamilyAssumption  == Tables \subseteq DOMAIN Family

VARIABLES
    kernel,    \* the ruleset of the kernel
    cache,     \* nft->cache.list
    cgen,      \* nft->cache.genid: "none" is 0, "current" the generation
               \* of the kernel, "old" an earlier one
    cflags,    \* nft->cache.flags
    stage,     \* what the run is doing
    cmds,      \* the commands of the batch
    next,      \* the command that is evaluated, or executed, next
    errs,      \* nft->state->nerrs
    linked,    \* the rules whose index was translated to a location
    check,     \* nft->check
    made,      \* the transaction of the batch in the kernel
    alone      \* no other process committed since this run had its cache

cvars == <<cache, cgen, cflags>>
vars  == <<kernel, cache, cgen, cflags, stage, cmds, next, errs, linked,
           check, made, alone>>

-----------------------------------------------------------------------------
(* cache_evaluate() and its helpers: the flags a command adds.             *)
Chain  == {"TABLE", "CHAIN"}
Set    == {"TABLE", "SET"}
Elems  == Set \cup {"SETELEM"}
Rule   == Chain \cup {"RULE"}
Full   == Kinds

(* Mutants: a rule does not ask for sets; an index does not ask for the    *)
(* cache to be kept up to date.                                            *)
FlagsAddNoSets(obj) ==
    CASE obj \in {"CHAIN", "SET"}       -> {"TABLE"}
      [] obj = "ELEMENTS"               -> Chain \cup Elems
      [] obj \in {"RULE", "RULE @SET"}  -> Chain
      [] obj = "RULE INDEX"             -> Rule \cup Set \cup {"UPDATE"}
      [] OTHER                          -> {}

FlagsAddNoUpdate(obj) ==
    CASE obj \in {"CHAIN", "SET"}                     -> {"TABLE"}
      [] obj = "ELEMENTS"                             -> Chain \cup Elems
      [] obj \in {"RULE", "RULE @SET", "RULE INDEX"}  -> Chain \cup Set
      [] OTHER                                        -> {}

FlagsAdd(obj) ==
    CASE obj \in {"CHAIN", "SET"}        -> {"TABLE"}
      [] obj = "ELEMENTS"                -> Chain \cup Elems
      [] obj \in {"RULE", "RULE @SET"}   -> Chain \cup Set
      [] obj = "RULE INDEX"              -> Rule \cup Set \cup {"UPDATE"}
      [] OTHER                           -> {}

FlagsOf(c) ==
    CASE c.op = "ADD"                        -> FlagsAdd(c.obj)
      [] c.op = "DELETE"                     -> Chain \cup (IF c.obj = "ELEMENTS" THEN Elems ELSE Set)
      [] c.op = "REPLACE"                    -> Full
      [] c.op = "GET"                        -> Elems
      [] c.op = "RESET"                      -> {"TABLE"}
      [] c.op = "LIST"                       -> Full \cup {"REFRESH"}
      [] c.op = "FLUSH" /\ c.obj = "SET"     -> Set
      [] c.op = "FLUSH" /\ c.obj = "RULESET" -> {"FLUSHED"}
      [] c.op = "RENAME"                     -> Chain
      [] OTHER                               -> {}

(* A replace command does not add its flags to those of the commands       *)
(* before it: it assigns them.                                             *)
CacheEvaluate(b) ==
    UNION {FlagsOf(b[i]) : i \in {j \in DOMAIN b :
              \A k \in DOMAIN b : k > j => b[k].op # "REPLACE"}}

-----------------------------------------------------------------------------
(* The kernel's side of a command (the kernel is not part of this          *)
(* repository): what it needs and what it leaves.                          *)
Of(t)         == {t} \X Kinds
Has(R, t, k)  == <<t, k>> \in R

NeedsAdd(obj) ==
    CASE obj \in {"CHAIN", "SET"}  -> {"TABLE"}
      [] obj = "ELEMENTS"          -> Set
      [] obj = "RULE"              -> Chain
      [] obj = "RULE @SET"         -> Chain \cup Set
      [] obj = "RULE INDEX"        -> Rule
      [] OTHER                     -> {}

NeedsOther(obj) ==
    CASE obj = "CHAIN"                         -> Chain
      [] obj = "RULE"                          -> Rule
      [] obj = "SET"                           -> Set
      [] obj = "ELEMENTS"                      -> Elems
      [] obj \in {"RULESET", "ALL COUNTERS"}   -> {}
      [] OTHER                                 -> {"TABLE"}

Needs(c) == {c.tbl} \X (IF c.op = "ADD" THEN NeedsAdd(c.obj) ELSE NeedsOther(c.obj))

Makes(obj) ==
    CASE obj \in {"TABLE", "CHAIN", "SET"} -> {obj}
      [] obj = "BLOCK"                     -> {"TABLE", "CHAIN", "SET", "RULE"}
      [] obj = "ELEMENTS"                  -> {"SETELEM"}
      [] OTHER                             -> {"RULE"}

Takes(op, obj) ==
    CASE op = "DELETE" /\ obj = "TABLE"                         -> Kinds
      [] op = "DELETE" /\ obj = "CHAIN"                         -> {"CHAIN", "RULE"}
      [] op = "DELETE" /\ obj = "SET"                           -> {"SET", "SETELEM"}
      [] <<op, obj>> \in {<<"DELETE", "RULE">>, <<"FLUSH", "CHAIN">>}    -> {"RULE"}
      [] <<op, obj>> \in {<<"DELETE", "ELEMENTS">>, <<"FLUSH", "SET">>}  -> {"SETELEM"}
      [] OTHER                                                  -> {}

Leaves(c, R) ==
    IF c.op = "ADD" THEN R \cup {c.tbl} \X Makes(c.obj)
    ELSE IF c.op = "FLUSH" /\ c.obj = "RULESET"
    THEN {p \in R : Family[p[1]] # Family[c.tbl]}
    ELSE R \ ({c.tbl} \X Takes(c.op, c.obj))

(* Commands that change a ruleset even if it has the same kinds after them.*)
Counts(c) ==
    \/ c.op \in {"REPLACE", "RENAME"}
    \/ c.op = "ADD" /\ c.obj \in {"BLOCK", "RULE", "RULE @SET", "RULE INDEX"}

(* A transaction: whether all its commands could be done, the ruleset they *)
(* make and whether any of them changed it.                                *)
Begun(R) == [ok |-> TRUE, to |-> R, changed |-> FALSE]

Applied(x, c) ==
    LET is == Leaves(c, x.to)
    IN  [ok      |-> x.ok /\ Needs(c) \subseteq x.to,
         to      |-> is,
         changed |-> x.changed \/ is # x.to \/ Counts(c)]

(* What the first i commands of a batch make of a ruleset.                 *)
Executed(R, b) ==
    LET x[i \in 0 .. Len(b)] == IF i = 0 THEN Begun(R) ELSE Applied(x[i - 1], b[i])
    IN  x

Accepts(R, b) == Executed(R, b)[Len(b)].ok

-----------------------------------------------------------------------------
(* cmd_evaluate(): the objects of the cache a command looks up.  To add,   *)
(* delete or get elements is setelem_evaluate() all the same.              *)
LookupsAdd(obj) == CASE obj \in {"CHAIN", "SET"}           -> {"TABLE"}
                     [] obj \in {"ELEMENTS", "RULE @SET"}  -> Set
                     [] OTHER                              -> {}

LookupsList(obj) == CASE obj \in {"TABLE", "CHAIN", "SET"} -> {"TABLE", obj}
                      [] OTHER                             -> {}

LookupsReset(obj) == IF obj = "COUNTERS" THEN {"TABLE"} ELSE {}
LookupsFlush(obj) == IF obj = "SET" THEN Set ELSE {}
LookupsRename     == Chain

Lookups(c) ==
    CASE c.op = "ADD"                                           -> LookupsAdd(c.obj)
      [] c.op \in {"DELETE", "GET"} /\ c.obj = "ELEMENTS"       -> Set
      [] c.op = "LIST"                                          -> LookupsList(c.obj)
      [] c.op = "RESET"                                         -> LookupsReset(c.obj)
      [] c.op = "FLUSH"                                         -> LookupsFlush(c.obj)
      [] c.op = "RENAME"                                        -> LookupsRename
      [] OTHER                                                  -> {}

(* And those rule_cache_update() looks up, when it is called.              *)
LookupsUpdate(c) ==
    IF "UPDATE" \notin cflags THEN {}
    ELSE CASE c.op = "ADD" /\ c.obj \in {"RULE", "RULE @SET"}        -> Chain
           [] c.op = "ADD" /\ c.obj = "RULE INDEX"                   -> Rule
           [] c.op = "REPLACE"                                       -> Rule
           [] c.obj = "BLOCK" /\ Has(cache, c.tbl, "TABLE")          -> Chain
           [] OTHER                                                  -> {}

Found(c) == {c.tbl} \X (Lookups(c) \cup LookupsUpdate(c)) \subseteq cache

(* do_command(): what a command looks up in the cache once more when it is *)
(* executed, after all were evaluated.  Nothing checks that it is there:   *)
(* the table listed, the chain renamed, and the table of each object that  *)
(* the kernel has just reset.                                              *)
DoLookups(c) ==
    CASE c.op = "RENAME"                            -> {c.tbl} \X Chain
      [] c.op = "LIST"       -> {c.tbl} \X (IF c.obj = "SET" THEN Set ELSE {"TABLE"})
      [] c.op = "RESET" /\ c.obj = "COUNTERS"       -> {<<c.tbl, "TABLE">>}
      [] c.op = "RESET" /\ c.obj = "ALL COUNTERS"   -> kernel \cap (Tables \X {"TABLE"})
      [] OTHER                                      -> {}

(* What a command that is evaluated without error does to the cache.  A    *)
(* table block is added as a whole, when the table is not cached; deleting *)
(* a chain, a set, a rule or elements leaves the cache alone.              *)
Cached(c) ==
    CASE c.op = "ADD" /\ c.obj \in {"TABLE", "CHAIN", "SET"} ->
            cache \cup {<<c.tbl, c.obj>>}
      [] c.op = "ADD" /\ c.obj = "BLOCK" ->
            IF Has(cache, c.tbl, "TABLE") THEN cache
            ELSE cache \cup {c.tbl} \X {"TABLE", "CHAIN", "SET", "RULE"}
      [] c.op = "ADD" /\ c.obj \in {"RULE", "RULE @SET", "RULE INDEX"}
                      /\ "UPDATE" \in cflags -> cache \cup {<<c.tbl, "RULE">>}
      [] c.op = "DELETE" /\ c.obj = "TABLE" -> cache \ Of(c.tbl)
      [] c.op = "FLUSH" /\ c.obj = "SET"    -> cache \ {<<c.tbl, "SETELEM">>}
      [] OTHER -> cache

-----------------------------------------------------------------------------
Closed(R) == \A p \in R :
    /\ <<p[1], "TABLE">> \in R
    /\ p[2] = "RULE"    => <<p[1], "CHAIN">> \in R
    /\ p[2] = "SETELEM" => <<p[1], "SET">> \in R

Rulesets == {R \in SUBSET (Tables \X Kinds) : Closed(R)}

Init == /\ kernel \in Rulesets
        /\ cache = {} /\ cgen = "none" /\ cflags = {}
        /\ stage = "idle"
        /\ cmds = <<>> /\ next = 1 /\ errs = 0 /\ linked = {}
        /\ check = FALSE /\ made = Begun({}) /\ alone = FALSE

(* A commit makes every generation an earlier one.                         *)
Older == cgen' = IF cgen = "current" THEN "old" ELSE cgen

(* Another process commits; the kernel carries out one batch at a time.    *)
Commit == /\ stage # "commit"
          /\ kernel' \in Rulesets
          /\ Older
          /\ alone' = FALSE
          /\ UNCHANGED <<cache, cflags, stage, cmds, next, errs, linked, check, made>>

(* nft_ctx_set_dry_run(), then nft_run_cmd_from_buffer(): the batch is     *)
(* parsed; after a syntax error the commands before it are kept and the    *)
(* error is counted.                                                       *)
Parse(b, dry, bad) ==
    /\ stage = "idle"
    /\ stage' = "update"
    /\ cmds' = b
    /\ check' = dry
    /\ errs' = IF bad THEN 1 ELSE 0
    /\ UNCHANGED <<kernel, cvars, next, linked, made, alone>>

(* The end of nft_run_cmd_from_buffer(): the commands are freed.           *)
Done == /\ stage' = "idle"
        /\ cmds' = <<>> /\ next' = 1 /\ errs' = 0 /\ linked' = {}
        /\ check' = FALSE /\ made' = Begun({}) /\ alone' = FALSE

(* Mutant: the cache outlives a run that fails.                            *)
FailKeepsCache == Done /\ UNCHANGED cvars

(* A run that fails also drops the cache.                                  *)
Fail == Done /\ cache' = {} /\ cgen' = "none" /\ cflags' = {}

(* nft_evaluate(): cache_update(), as in CacheSnapshot.                    *)
Usable(f) == "REFRESH" \notin cflags /\ f \subseteq cflags /\ cgen = "current"

(* Mutant: the flags of a cache that is not loaded are all kept.           *)
LoadedAll(f) == f

(* The flags of a cache just loaded: a flush of the ruleset loads nothing. *)
Loaded(f) == IF "FLUSHED" \in f THEN f \cap {"UPDATE"} ELSE f

UpdateCache ==
    /\ stage = "update"
    /\ stage' = "evaluate"
    /\ alone' = TRUE
    /\ LET f == CacheEvaluate(cmds)
       IN  IF Usable(f) THEN UNCHANGED cvars
           ELSE /\ cgen' = "current"
                /\ cflags' = Loaded(f)
                /\ cache' = {p \in kernel : p[2] \in cflags'}
    /\ UNCHANGED <<kernel, cmds, next, errs, linked, check, made>>

UpdateCacheFails == /\ stage = "update"
                    /\ Fail
                    /\ UNCHANGED kernel

(* Mutant: errors are not counted.                                         *)
EvaluateUncounted ==
    /\ stage = "evaluate"
    /\ next <= Len(cmds)
    /\ next' = next + 1
    /\ cache' = IF Found(cmds[next]) THEN Cached(cmds[next]) ELSE cache
    /\ UNCHANGED <<kernel, cgen, cflags, stage, cmds, errs, linked, check, made, alone>>

(* cmd_evaluate() of the next command.  An error is counted and the        *)
(* commands after it are evaluated all the same.                           *)
Evaluate ==
    /\ stage = "evaluate"
    /\ next <= Len(cmds)
    /\ next' = next + 1
    /\ LET c == cmds[next]
       IN  IF Found(c)
           THEN /\ cache' = Cached(c)
                /\ linked' = IF c.obj = "RULE INDEX" /\ "UPDATE" \in cflags
                             THEN linked \cup {next} ELSE linked
                /\ UNCHANGED errs
           ELSE /\ errs' = errs + 1
                /\ UNCHANGED <<cache, linked>>
    /\ UNCHANGED <<kernel, cgen, cflags, stage, cmds, check, made, alone>>

(* nft_evaluate() returns: with errors the run has failed.                 *)
Evaluated == stage = "evaluate" /\ next > Len(cmds)

EvaluateFails == /\ Evaluated
                 /\ errs > 0
                 /\ Fail
                 /\ UNCHANGED kernel

EvaluateDone == /\ Evaluated
                /\ errs = 0
                /\ stage' = "netlink"
                /\ next' = 1
                /\ UNCHANGED <<kernel, cvars, cmds, errs, linked, check, made, alone>>

(* nft_netlink() calls do_command(): a command becomes a message of the    *)
(* batch, and queries ask the kernel at once.                              *)
Queried(c) == c.op \in {"GET", "RESET"} => Needs(c) \subseteq kernel

DoCommand == /\ stage = "netlink"
             /\ next <= Len(cmds)
             /\ Queried(cmds[next])
             /\ next' = next + 1
             /\ UNCHANGED <<kernel, cvars, stage, cmds, errs, linked, check, made, alone>>

DoCommandFails == /\ stage = "netlink"
                  /\ next <= Len(cmds)
                  /\ ~Queried(cmds[next])
                  /\ Fail
                  /\ UNCHANGED kernel

(* The batch is sent, and the kernel carries out its messages.             *)
Sends(c) == c.op \notin {"LIST", "GET", "RESET"}

Send == /\ stage = "netlink"
        /\ next > Len(cmds)
        /\ stage' = "commit"
        /\ next' = 1
        /\ made' = Begun(kernel)
        /\ UNCHANGED <<kernel, cvars, cmds, errs, linked, check, alone>>

ApplyNext == /\ stage = "commit"
             /\ next <= Len(cmds)
             /\ next' = next + 1
             /\ made' = IF Sends(cmds[next]) THEN Applied(made, cmds[next]) ELSE made
             /\ UNCHANGED <<kernel, cvars, stage, cmds, errs, linked, check, alone>>

(* A dry run leaves out the end of the batch and the kernel undoes it; a   *)
(* batch that changes nothing makes no generation.                         *)
Netlink ==
    /\ stage = "commit"
    /\ next > Len(cmds)
    /\ made.ok
    /\ IF check \/ ~made.changed THEN UNCHANGED <<kernel, cgen>>
       ELSE kernel' = made.to /\ Older
    /\ Done
    /\ UNCHANGED <<cache, cflags>>

NetlinkFails == /\ stage = "commit"
                /\ next > Len(cmds)
                /\ ~made.ok
                /\ Fail
                /\ UNCHANGED kernel

Next == \/ Commit
        \/ \E b \in Batches, dry \in DryRuns, bad \in BOOLEAN : Parse(b, dry, bad)
        \/ UpdateCache
        \/ UpdateCacheFails
        \/ Evaluate
        \/ EvaluateFails
        \/ EvaluateDone
        \/ DoCommand
        \/ DoCommandFails
        \/ Send
        \/ ApplyNext
        \/ Netlink
        \/ NetlinkFails

Spec == Init /\ [][Next]_vars

-----------------------------------------------------------------------------
(* Properties.                                                             *)

(* The variables hold what their C types and the code around them allow.   *)
TypeOK == /\ kernel \in Rulesets
          /\ cache \subseteq Tables \X Kinds
          /\ cgen \in {"none", "old", "current"}
          /\ cflags \subseteq Kinds \cup {"REFRESH", "UPDATE"}
          /\ stage \in {"idle", "update", "evaluate", "netlink", "commit"}
          /\ cmds \in Batches \cup {<<>>}
          /\ next \in 1 .. Len(cmds) + 1
          /\ errs \in 0 .. Len(cmds) + 1
          /\ linked \subseteq DOMAIN cmds
          /\ check \in BOOLEAN /\ alone \in BOOLEAN

(* cache_is_updated(), cache.c:387-390: between two runs, a cache that the *)
(* next run would take for valid agrees with the kernel on every kind it   *)
(* claims, whatever the evaluation of earlier runs did to it               *)
(* (libnftables.c:498-499: a run that fails drops it).                     *)
CacheIsCurrent ==
    stage \in {"idle", "update"} /\ cgen = "current"
        => \A t \in Tables, k \in Kinds \cap cflags :
              Has(cache, t, k) <=> Has(kernel, t, k)

(* cache_evaluate(), cache.c:116-170, against cmd_evaluate(): a batch that *)
(* the kernel would accept is not rejected for an object that the cache    *)
(* lacks; each command asked for the levels its evaluation looks at, and   *)
(* the commands before it kept the cache in step.                          *)
NoFalseReject ==
    stage = "evaluate" /\ alone /\ errs = 0
      /\ next <= Len(cmds) /\ Accepts(kernel, cmds)
        => Found(cmds[next])

(* rule_evaluate(), evaluate.c:4050-4051: the index of a rule command only *)
(* means something to this process, so no batch is sent before each index  *)
(* was translated to a handle or to a rule of the same batch.              *)
IndexTranslated ==
    stage \in {"netlink", "commit"}
        => \A i \in DOMAIN cmds : cmds[i].obj = "RULE INDEX" => i \in linked

(* do_command(), rule.c:2454-2640: what the evaluation of a command found  *)
(* in the cache is still there when the command is executed, after the     *)
(* evaluation of the commands behind it; the code follows the pointers it  *)
(* looks up without a check.                                               *)
FoundAgain ==
    stage = "netlink" /\ next <= Len(cmds) => DoLookups(cmds[next]) \subseteq cache
=============================================================================
