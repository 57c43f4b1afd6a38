------------------------------ MODULE NftCache ------------------------------
(***************************************************************************)
(* cache_update() of cache.c: the cache of a struct nft_ctx is loaded by   *)
(* several netlink dumps while other processes commit transactions.  The   *)
(* generation the kernel stamps on its answers is asked for before and     *)
(* after the dumps and compared in each of them; the load is replayed      *)
(* until it was not disturbed.                                             *)
(*                                                                         *)
(* One action is one exchange with the kernel and the code that runs on    *)
(* its answer.  A dump whose answer a commit splits sees a generation that *)
(* is not the one it started with and ends like a dump that starts after   *)
(* the commit, so a dump is one action.                                    *)
(***************************************************************************)
EXTENDS Ruleset, FiniteSets

CONSTANTS Requests,    \* the sets of flags cache_update() is called with
          GenMod,      \* values of the generation on the wire: 2^16 in the
                       \* code (res_id); 1 is a kernel that always sends 0
          DumpFaults   \* may a dump fail with an error that is not EINTR

(* enum cache_level_flags, include/cache.h: the bits that are not kinds.   *)
Modifiers == {"REFRESH", "UPDATE", "FLUSHED"}

ASSUME RequestsAssumption ==
    \A f \in Requests :
        /\ f \subseteq Kinds \cup Modifiers
        /\ Closed(f \cap Kinds)
        /\ f \cap Kinds # {} => "TABLE" \in f
        /\ f \cap Kinds = {} => f = {} \/ "FLUSHED" \in f
ASSUME GenModAssumption == GenMod \in Nat \ {0}
ASSUME DumpFaultsAssumption == DumpFaults \in BOOLEAN

VARIABLES
    kernel,     \* the ruleset in the kernel
    kgen,       \* its generation
    nft_genid,  \* static nft_genid of mnl.c: what the last GETGEN answered
    lists,      \* nft->cache.list: lists[t][k] is what the first table t of
                \* the list has in its list of kind k, "TABLE" the tables t
    cgenid,     \* nft->cache.genid
    cflags,     \* nft->cache.flags
    pc,         \* where cache_update() is; "idle" when it is not running
    flags,      \* its parameter
    genid,      \* its local
    todo,       \* the lists cache_init_objects() has still to fill
    ret         \* how the last call ended

kvars == <<kernel, kgen>>
cvars == <<lists, cgenid, cflags>>
vars  == <<kernel, kgen, nft_genid, lists, cgenid, cflags, pc, flags, genid,
           todo, ret>>

(* genid_cb() and check_genid() see the low bits of the generation.        *)
Wire(g) == g % GenMod

-----------------------------------------------------------------------------
(* cache_release(), without the assignment of pc.                          *)
Release == /\ lists' = EmptyLists
           /\ cgenid' = 0
           /\ cflags' = {}

(* Mutants: the level of a loaded cache is not compared; a cache never     *)
(* needs a refresh.                                                        *)
AnyLevel(f) == "REFRESH" \notin f
NeverRefresh == FALSE

(* cache_is_updated(), cache_is_complete() and cache_needs_refresh().      *)
IsUpdated(g)  == g # 0 /\ g = cgenid
IsComplete(f) == f \subseteq cflags
NeedsRefresh  == "REFRESH" \in cflags

(* Leave cache_update(), or start it over.                                 *)
Return(r) == /\ pc' = "idle"
             /\ ret' = r
             /\ todo' = {}
             /\ UNCHANGED <<flags, genid>>

Replay == /\ Release
          /\ pc' = "replay"
          /\ todo' = {}
          /\ UNCHANGED <<flags, genid, ret>>

-----------------------------------------------------------------------------
Init == /\ kernel \in [Tables -> Contents(1)]
        /\ kgen = 1
        /\ nft_genid = 0
        /\ lists = EmptyLists
        /\ cgenid = 0
        /\ cflags = {}
        /\ pc = "idle"
        /\ flags = {}
        /\ genid = 0
        /\ todo = {}
        /\ ret = "none"

(* The kernel commits a batch of another process.                          *)
Commit == /\ kgen < MaxGen
          /\ kgen' = kgen + 1
          /\ kernel' \in Commits(kernel, kgen + 1)
          /\ UNCHANGED <<nft_genid, lists, cgenid, cflags, pc, flags, genid,
                         todo, ret>>

(* nft_evaluate() calls cache_update().                                    *)
Call(f) == /\ pc = "idle"
           /\ pc' = "replay"
           /\ flags' = f
           /\ ret' = "none"
           /\ UNCHANGED <<kernel, kgen, nft_genid, lists, cgenid, cflags,
                          genid, todo>>

(* A failed nft_run_cmd_from_buffer() and nft_ctx_free() drop the cache.   *)
Drop == /\ pc = "idle"
        /\ Release
        /\ UNCHANGED <<kernel, kgen, nft_genid, pc, flags, genid, todo, ret>>

(* mnl_genid_get(): the answer to GETGEN also lands in a static variable.  *)
GetGen == /\ nft_genid' = Wire(kgen)
          /\ UNCHANGED kvars

(* The first GETGEN, answered with the generation the cache was loaded at. *)
GetGenHit == /\ pc = "replay"
             /\ GetGen
             /\ ~NeedsRefresh /\ IsComplete(flags) /\ IsUpdated(nft_genid')
             /\ genid' = nft_genid'
             /\ pc' = "idle"
             /\ ret' = "hit"
             /\ UNCHANGED <<lists, cgenid, cflags, flags, todo>>

(* Mutants: the cache is not released before a load; the flags of a        *)
(* skipped load are all kept.                                              *)
MissKeepsLists ==
    /\ pc = "replay"
    /\ GetGen
    /\ ~(~NeedsRefresh /\ IsComplete(flags) /\ IsUpdated(nft_genid'))
    /\ genid' = nft_genid'
    /\ todo' = {}
    /\ IF "FLUSHED" \in flags
       THEN /\ cgenid' = nft_genid'
            /\ cflags' = flags \cap {"UPDATE"}
            /\ pc' = "idle"
            /\ ret' = "loaded"
       ELSE /\ cgenid' = 0
            /\ cflags' = {}
            /\ pc' = IF flags = {} THEN "objects" ELSE "tables"
            /\ UNCHANGED ret
    /\ UNCHANGED <<flags, lists>>

MissKeepsFlags ==
    /\ pc = "replay"
    /\ GetGen
    /\ ~(~NeedsRefresh /\ IsComplete(flags) /\ IsUpdated(nft_genid'))
    /\ genid' = nft_genid'
    /\ lists' = IF cgenid # 0 THEN EmptyLists ELSE lists
    /\ todo' = {}
    /\ IF "FLUSHED" \in flags
       THEN /\ cgenid' = nft_genid'
            /\ cflags' = flags
            /\ pc' = "idle"
            /\ ret' = "loaded"
       ELSE /\ cgenid' = 0
            /\ cflags' = IF cgenid # 0 THEN {} ELSE cflags
            /\ pc' = IF flags = {} THEN "objects" ELSE "tables"
            /\ UNCHANGED ret
    /\ UNCHANGED flags

(* It was not: the cache is released, if its generation says it was        *)
(* loaded, and a load begins, or is skipped when the batch flushes the     *)
(* ruleset.                                                                *)
GetGenMiss ==
    /\ pc = "replay"
    /\ GetGen
    /\ ~(~NeedsRefresh /\ IsComplete(flags) /\ IsUpdated(nft_genid'))
    /\ genid' = nft_genid'
    /\ lists' = IF cgenid # 0 THEN EmptyLists ELSE lists
    /\ todo' = {}
    /\ IF "FLUSHED" \in flags
       THEN /\ cgenid' = nft_genid'
            /\ cflags' = flags \cap {"UPDATE"}
            /\ pc' = "idle"
            /\ ret' = "loaded"
       ELSE /\ cgenid' = 0
            /\ cflags' = IF cgenid # 0 THEN {} ELSE cflags
            /\ pc' = IF flags = {} THEN "objects" ELSE "tables"
            /\ UNCHANGED ret
    /\ UNCHANGED flags

(* A dump is disturbed: some answer carries another generation, check_genid*)
(* (or the kernel's own mark) turns it into EINTR.                         *)
Disturbed == Wire(kgen) # nft_genid

DumpInterrupted == /\ pc \in {"tables", "chains", "objects"}
                   /\ pc = "objects" => todo # {}
                   /\ Disturbed
                   /\ Replay
                   /\ UNCHANGED <<kernel, kgen, nft_genid>>

(* Mutant: answers to a dump of rules are not checked.                     *)
UncheckedRules(t, k) == k # "RULE" /\ Holds(kernel, t, k) => ~Disturbed

(* A dump that returns: only answers that hold an object are checked.      *)
Undisturbed(t, k) == Holds(kernel, t, k) => ~Disturbed

(* cache_init_tables(): the tables go to the end of the cache's list.      *)
DumpTables ==
    /\ pc = "tables"
    /\ \A t \in Tables : Undisturbed(t, "TABLE")
    /\ lists' = [t \in Tables |-> [lists[t] EXCEPT
                    !["TABLE"] = @ \o Objects(kernel, t, "TABLE")]]
    /\ todo' = {t \in Tables : lists'[t]["TABLE"] # <<>>}
                  \X (flags \cap (Kinds \ {"TABLE", "CHAIN"}))
    /\ pc' = IF "CHAIN" \in flags THEN "chains" ELSE "objects"
    /\ UNCHANGED <<kernel, kgen, nft_genid, cgenid, cflags, flags, genid, ret>>

(* chain_cache_dump() for the whole ruleset, chain_cache_init() for each   *)
(* cached table.                                                           *)
DumpChains ==
    /\ pc = "chains"
    /\ \A t \in Tables : Undisturbed(t, "CHAIN")
    /\ lists' = [t \in Tables |->
          IF lists[t]["TABLE"] = <<>> THEN lists[t]
          ELSE [lists[t] EXCEPT !["CHAIN"] = @ \o Objects(kernel, t, "CHAIN")]]
    /\ pc' = "objects"
    /\ UNCHANGED <<kernel, kgen, nft_genid, cgenid, cflags, flags, genid,
                   todo, ret>>

(* The order of the dumps of one table in cache_init_objects().            *)
DumpOrder == <<"SET", "SETELEM", "FLOWTABLE", "OBJECT", "RULE">>

Turn(t, k) ==
    /\ <<t, k>> \in todo
    /\ \A i, j \in 1 .. Len(DumpOrder) :
          DumpOrder[j] = k /\ <<t, DumpOrder[i]>> \in todo => j <= i
    /\ \A u \in Tables \ {t} :
          (\E i \in Kinds : <<u, i>> \in todo) =>
              \A i \in flags \cap (Kinds \ {"TABLE", "CHAIN"}) : <<u, i>> \in todo

(* netlink_list_sets(), _setelems(), _flowtables(), _objs() and _rules().  *)
(* Elements are asked for the sets found; a set or table that is gone is   *)
(* an error other than EINTR, which counts as an empty answer.             *)
DumpObjects(t, k) ==
    /\ pc = "objects"
    /\ Turn(t, k)
    /\ Undisturbed(t, k)
    /\ LET found == IF k = "SETELEM" /\ lists[t]["SET"] = <<>>
                    THEN <<>> ELSE Objects(kernel, t, k)
       IN  lists' = [lists EXCEPT ![t][k] = @ \o found]
    /\ todo' = todo \ {<<t, k>>}
    /\ UNCHANGED <<kernel, kgen, nft_genid, cgenid, cflags, pc, flags, genid,
                   ret>>

(* A dump fails with another error than EINTR: fatal for the tables, while *)
(* without chains nothing else is dumped and an object list stays empty.   *)
DumpTablesFails == /\ DumpFaults
                   /\ pc = "tables"
                   /\ Release
                   /\ Return("failed")
                   /\ UNCHANGED <<kernel, kgen, nft_genid>>

DumpChainsFails == /\ DumpFaults
                   /\ pc = "chains"
                   /\ pc' = "objects"
                   /\ todo' = {}
                   /\ UNCHANGED <<kernel, kgen, nft_genid, lists, cgenid,
                                  cflags, flags, genid, ret>>

DumpObjectsFails(t, k) == /\ DumpFaults
                          /\ pc = "objects"
                          /\ Turn(t, k)
                          /\ todo' = todo \ {<<t, k>>}
                          /\ UNCHANGED <<kernel, kgen, nft_genid, lists,
                                         cgenid, cflags, pc, flags, genid, ret>>

(* Mutants: the generation is read at the end of the load only, and a      *)
(* disturbed load is replayed without asking for the generation again.     *)
GenAtTheEnd ==
    /\ pc = "objects"
    /\ todo = {}
    /\ GetGen
    /\ cgenid' = nft_genid'
    /\ cflags' = flags
    /\ Return("loaded")
    /\ UNCHANGED lists

ReplaySameGen ==
    /\ pc = "objects"
    /\ todo = {}
    /\ GetGen
    /\ IF nft_genid' = genid
       THEN /\ cgenid' = genid
            /\ cflags' = flags
            /\ Return("loaded")
            /\ UNCHANGED lists
       ELSE /\ Release
            /\ pc' = "tables"
            /\ UNCHANGED <<flags, genid, todo, ret>>

(* The second GETGEN: the same generation ends the call, another one       *)
(* starts it over.                                                         *)
GetGenStop ==
    /\ pc = "objects"
    /\ todo = {}
    /\ GetGen
    /\ IF nft_genid' = genid
       THEN /\ cgenid' = genid
            /\ cflags' = flags
            /\ Return("loaded")
            /\ UNCHANGED lists
       ELSE Replay

-----------------------------------------------------------------------------
Update == \/ GetGenHit
          \/ GetGenMiss
          \/ DumpInterrupted
          \/ DumpTables
          \/ DumpChains
          \/ \E t \in Tables, k \in Kinds : DumpObjects(t, k)
          \/ DumpTablesFails
          \/ DumpChainsFails
          \/ \E t \in Tables, k \in Kinds : DumpObjectsFails(t, k)
          \/ GetGenStop

Next == Commit \/ (\E f \in Requests : Call(f)) \/ Drop \/ Update

Spec == Init /\ [][Next]_vars

(* The process that called cache_update() keeps running and the kernel     *)
(* answers; nothing is assumed of the other processes or of the caller.    *)
FairSpec == Spec /\ WF_vars(Update)

-----------------------------------------------------------------------------
(* Properties.                                                             *)

(* The variables hold what their C types and the protocol allow.           *)
Stamps == 1 .. MaxGen

TypeOK == /\ kernel \in Rulesets
          /\ kgen \in 1 .. MaxGen
          /\ nft_genid \in 0 .. MaxGen
          /\ lists \in [Tables -> [Kinds -> Seq(Stamps)]]
          /\ cgenid \in 0 .. MaxGen
          /\ cflags \subseteq Kinds \cup {"REFRESH", "UPDATE"}
          /\ pc \in {"idle", "replay", "tables", "chains", "objects"}
          /\ flags \subseteq Kinds \cup Modifiers
          /\ genid \in 0 .. MaxGen
          /\ todo \subseteq Tables \X Kinds
          /\ ret \in {"none", "hit", "loaded", "failed"}

(* cache_update(), cache.c:397: while the generation of a loaded cache is  *)
(* the kernel's, the cache is the kernel's ruleset: every list of every    *)
(* level it claims, from one generation, nothing twice, nothing else.      *)
CacheIsSnapshot ==
    pc = "idle" /\ cgenid # 0 /\ cgenid = Wire(kgen)
        => lists = Snapshot(kernel, cflags)

(* cache_init_objects(), cache.c:336-343: each rule that a dump returns is *)
(* moved to a chain that an earlier dump returned; were there none, the    *)
(* code would follow a null pointer.                                       *)
RulesHaveChains ==
    \A t \in Tables : \A i \in 1 .. Len(lists[t]["RULE"]) :
        \E j \in 1 .. Len(lists[t]["CHAIN"]) :
            lists[t]["CHAIN"][j] = lists[t]["RULE"][i]

(* list_splice_tail_init() only ever appends: each load must begin with    *)
(* lists that an earlier load has left empty (cache.c:415, 427, 435).      *)
NothingTwice == \A t \in Tables, k \in Kinds : Len(lists[t][k]) <= 1

(* NFT_CACHE_REFRESH: `list' and `export' show counters, which change      *)
(* without a new generation, so they never make do with a loaded cache,    *)
(* nor does the next command after them (cache.c:382-385, 406).            *)
RefreshReloads == ret = "hit" => "REFRESH" \notin flags \cup cflags

(* netlink_list_*(), netlink.c:455-475 and 986-1003: when a dump fails for *)
(* another reason than EINTR the cache may lack objects, but what it holds *)
(* is still the kernel's.                                                  *)
NothingForeign ==
    pc = "idle" /\ cgenid # 0 /\ cgenid = Wire(kgen)
        => \A t \in Tables, k \in Kinds :
              lists[t][k] \in {<<>>, Snapshot(kernel, cflags)[t][k]}

(* cache_update() is atomic for its callers: it implements CacheSnapshot.  *)
CS == INSTANCE CacheSnapshot
        WITH busy  <- pc # "idle",
             want  <- flags,
             view  <- IF pc = "idle" THEN lists ELSE EmptyLists,
             level <- IF pc = "idle" THEN cflags \cap Kinds ELSE {}

ImplementsCacheSnapshot == CS!SSpec

(* Once the other processes stop committing, a call ends: each replay is   *)
(* caused by a commit after the last one, and commits are finite here.     *)
UpdateReturns == pc # "idle" ~> pc = "idle"
=============================================================================
