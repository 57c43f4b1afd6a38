--------------------------- MODULE CacheSnapshot ---------------------------
(***************************************************************************)
(* What cache_update() promises its callers, without saying how: the       *)
(* ruleset of the kernel is changed by anybody at any time, and a call     *)
(* that returns success leaves a view which was, at one single instant of  *)
(* the call, the whole ruleset at the cache level asked for.  A view is of *)
(* no use while a call is in progress.                                     *)
(***************************************************************************)
EXTENDS Ruleset

CONSTANT Requests     \* the sets of cache flags a call may ask for

VARIABLES kernel,     \* the ruleset
          kgen,       \* its generation
          busy,       \* a call is in progress
          want,       \* the flags it asks for
          view,       \* the lists the callers work with
          level       \* the kinds the view is complete for

svars == <<kernel, kgen, busy, want, view, level>>

SInit == /\ kernel \in [Tables -> Contents(1)]
         /\ kgen = 1
         /\ busy = FALSE
         /\ want = {}
         /\ view = EmptyLists
         /\ level = {}

(* Some process replaces the content of some tables.                       *)
SCommit == /\ kgen < MaxGen
           /\ kgen' = kgen + 1
           /\ kernel' \in Commits(kernel, kgen + 1)
           /\ UNCHANGED <<busy, want, view, level>>

SCall(f) == /\ ~busy
            /\ busy' = TRUE
            /\ want' = f
            /\ view' = EmptyLists
            /\ level' = {}
            /\ UNCHANGED <<kernel, kgen>>

(* The call succeeds: the view is the ruleset of this very moment.  A      *)
(* batch that starts by flushing the ruleset is evaluated against nothing. *)
SReturn == /\ busy
           /\ busy' = FALSE
           /\ level' \in SUBSET Kinds
           /\ IF "FLUSHED" \in want THEN level' = {}
                                    ELSE want \cap Kinds \subseteq level'
           /\ view' = Snapshot(kernel, level')
           /\ UNCHANGED <<kernel, kgen, want>>

(* The call fails, or the caller drops the view: it is empty.              *)
SDrop == /\ busy' = FALSE
         /\ view' = EmptyLists
         /\ level' = {}
         /\ UNCHANGED <<kernel, kgen, want>>

SNext == SCommit \/ (\E f \in Requests : SCall(f)) \/ SReturn \/ SDrop

SSpec == SInit /\ [][SNext]_svars

=============================================================================
