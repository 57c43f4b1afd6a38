--------------------------- MODULE NftCache_proofs ---------------------------
(***************************************************************************)
(* Proofs about NftCache, for every set of tables, every set of requests   *)
(* and every bound on the generations that the wire can tell apart.        *)
(***************************************************************************)
EXTENDS NftCache, SequenceTheorems, TLAPS

(* The generations of a run are distinct, and not zero, on the wire.       *)
NoWrap == MaxGen < GenMod

LEMMA WireIsExact ==
    ASSUME NoWrap, NEW g \in 0 .. MaxGen
    PROVE  Wire(g) = g
  BY GenModAssumption, MaxGenAssumption DEF NoWrap, Wire

(* A commit leaves each table as it was or writes it anew.                 *)
LEMMA CommitType ==
    ASSUME NEW ker \in Rulesets, NEW g \in 1 .. MaxGen, NEW ker2 \in Commits(ker, g)
    PROVE  ker2 \in Rulesets
  <1>1. Contents(g) \subseteq [ver : 0 .. MaxGen, has : Shapes \cup {{}}]
    BY MaxGenAssumption DEF Contents, NoTable
  <1>2. PICK touched \in SUBSET Tables, now \in [Tables -> Contents(g)] :
           ker2 = [t \in Tables |-> IF t \in touched THEN now[t] ELSE ker[t]]
    BY DEF Commits
  <1> QED
    BY <1>1, <1>2 DEF Rulesets

LEMMA ObjectsType ==
    ASSUME NEW ker \in Rulesets, NEW t \in Tables, NEW k \in Kinds
    PROVE  /\ Objects(ker, t, k) \in Seq(Stamps)
           /\ Len(Objects(ker, t, k)) <= 1
           /\ ~Holds(ker, t, k) <=> Objects(ker, t, k) = <<>>
  <1>1. ker[t].ver \in 0 .. MaxGen
    BY DEF Rulesets
  <1>2. CASE Holds(ker, t, k)
    <2>1. /\ Objects(ker, t, k) = <<ker[t].ver>>
          /\ ker[t].ver \in Stamps
      BY <1>1, <1>2, MaxGenAssumption DEF Objects, Holds, Stamps
    <2> QED
      BY <1>2, <2>1
  <1>3. CASE ~Holds(ker, t, k)
    BY <1>3 DEF Objects
  <1> QED
    BY <1>2, <1>3

-----------------------------------------------------------------------------
(* The inductive invariant.  While a load runs, a list is done once its    *)
(* dump has returned; what the lists hold is exactly the ruleset, on the   *)
(* lists that are done, as long as the kernel is still at the generation   *)
(* the load began with.                                                    *)

Loading == pc \in {"tables", "chains", "objects"}

Done(t, k) == \/ pc = "chains" /\ k = "TABLE"
              \/ pc = "objects" /\ <<t, k>> \notin todo

Loaded == [t \in Tables |-> [k \in Kinds |->
              IF k \in flags /\ Done(t, k) THEN Objects(kernel, t, k) ELSE <<>>]]

(* What a dump that failed may have left out.  The tables are never left   *)
(* out, and without the chains there is nothing more to do.                *)
MayLack(k) == DumpFaults /\ k # "TABLE" /\ (k = "CHAIN" => todo = {})

Matches(s) == \A t \in Tables, k \in Kinds :
                 lists[t][k] = s[t][k] \/ (MayLack(k) /\ lists[t][k] = <<>>)

FlagsOK == /\ Closed(flags \cap Kinds)
           /\ flags \cap (Kinds \ {"TABLE"}) # {} => "TABLE" \in flags
           /\ todo \subseteq Tables \X (flags \cap (Kinds \ {"TABLE", "CHAIN"}))
           /\ todo # {} => pc \in {"chains", "objects"}
           /\ pc # "idle" => flags \in Requests
           /\ pc \in {"tables", "chains"} => "TABLE" \in flags
           /\ pc = "chains" => "CHAIN" \in flags
           /\ Loading => "FLUSHED" \notin flags

GenOK == /\ genid <= kgen /\ cgenid <= kgen /\ nft_genid <= kgen
         /\ Loading => nft_genid = genid /\ genid # 0 /\ cgenid = 0 /\ cflags = {}

(* What the lists hold while a load is running.                            *)
LoadOK == Loading =>
            /\ genid = kgen => Matches(Loaded)
            /\ pc = "chains" => todo = {t \in Tables : lists[t]["TABLE"] # <<>>}
                                   \X (flags \cap (Kinds \ {"TABLE", "CHAIN"}))
            /\ \A t \in Tables, k \in Kinds :
                  /\ Len(lists[t][k]) <= 1
                  /\ ~(k \in flags /\ Done(t, k)) => lists[t][k] = <<>>

(* What they hold otherwise.                                               *)
RestOK == ~Loading =>
            /\ cgenid = 0 => lists = EmptyLists /\ cflags = {}
            /\ cgenid = kgen => Matches(Snapshot(kernel, cflags))
            /\ \A t \in Tables, k \in Kinds : Len(lists[t][k]) <= 1

IInv == TypeOK /\ FlagsOK /\ GenOK /\ LoadOK /\ RestOK /\ RulesHaveChains

(* What a load appends to a list that is still empty.                      *)
LEMMA AppendToEmpty ==
    ASSUME NEW ker \in Rulesets, NEW t \in Tables, NEW k \in Kinds
    PROVE  <<>> \o Objects(ker, t, k) = Objects(ker, t, k)
  BY ObjectsType, ConcatEmptySeq

LEMMA ExceptType ==
    ASSUME NEW S, NEW f \in [Kinds -> S], NEW k \in Kinds, NEW v \in S
    PROVE  [f EXCEPT ![k] = v] \in [Kinds -> S]
  OBVIOUS

LEMMA EmptyListsType ==
    /\ EmptyLists \in [Tables -> [Kinds -> Seq(Stamps)]]
    /\ \A t \in Tables, k \in Kinds : EmptyLists[t][k] = <<>> /\ Len(EmptyLists[t][k]) = 0
  BY DEF EmptyLists

LEMMA InitInv == Init => IInv
  <1> SUFFICES ASSUME Init PROVE IInv
    OBVIOUS
  <1>1. kernel \in Rulesets
    BY MaxGenAssumption DEF Init, Rulesets, Contents, NoTable
  <1>2. TypeOK
    BY <1>1, EmptyListsType, MaxGenAssumption DEF Init, TypeOK
  <1>3. FlagsOK /\ GenOK /\ LoadOK
    BY DEF Init, FlagsOK, GenOK, LoadOK, Loading, Closed
  <1>4. RestOK
    BY <1>1, EmptyListsType DEF Init, RestOK, Loading
  <1>5. RulesHaveChains
    BY EmptyListsType DEF Init, RulesHaveChains, Kinds
  <1> QED
    BY <1>2, <1>3, <1>4, <1>5 DEF IInv

LEMMA CommitInv == NoWrap /\ IInv /\ Commit => IInv'
  <1> SUFFICES ASSUME NoWrap, IInv, Commit PROVE IInv'
    OBVIOUS
  <1> USE DEF IInv
  <1>1. kernel' \in Rulesets /\ kgen' \in 1 .. MaxGen
    BY CommitType, MaxGenAssumption DEF Commit, TypeOK
  <1>2. TypeOK'
    BY <1>1 DEF Commit, TypeOK
  <1>3. FlagsOK'
    BY DEF Commit, FlagsOK, Loading
  <1>4. GenOK'
    BY DEF Commit, GenOK, Loading, TypeOK
  <1>5. genid # kgen' /\ cgenid # kgen'
    BY DEF GenOK, TypeOK, Commit
  <1>6. LoadOK'
    BY <1>5 DEF Commit, LoadOK, Loading, Done
  <1>7. RestOK'
    BY <1>5 DEF Commit, RestOK, Loading
  <1>8. RulesHaveChains'
    BY DEF Commit, RulesHaveChains
  <1> QED
    BY <1>2, <1>3, <1>4, <1>6, <1>7, <1>8

LEMMA CallInv == NoWrap /\ IInv /\ (\E f \in Requests : Call(f)) => IInv'
  <1> SUFFICES ASSUME NoWrap, IInv, NEW f \in Requests, Call(f) PROVE IInv'
    OBVIOUS
  <1> USE DEF IInv
  <1>1. TypeOK'
    BY RequestsAssumption DEF Call, TypeOK
  <1>2. FlagsOK'
    BY RequestsAssumption DEF Call, FlagsOK, Loading
  <1>3. GenOK' /\ LoadOK'
    BY DEF Call, GenOK, LoadOK, Loading
  <1>4. RestOK'
    BY DEF Call, RestOK, Loading, Matches, MayLack
  <1>5. RulesHaveChains'
    BY DEF Call, RulesHaveChains
  <1> QED
    BY <1>1, <1>2, <1>3, <1>4, <1>5

LEMMA DropInv == NoWrap /\ IInv /\ Drop => IInv'
  <1> SUFFICES ASSUME NoWrap, IInv, Drop PROVE IInv'
    OBVIOUS
  <1> USE DEF IInv
  <1>1. TypeOK'
    BY EmptyListsType, MaxGenAssumption DEF Drop, Release, TypeOK
  <1>2. FlagsOK'
    BY DEF Drop, FlagsOK, Loading
  <1>3. GenOK' /\ LoadOK'
    BY DEF Drop, Release, GenOK, LoadOK, Loading, TypeOK
  <1>4. RestOK'
    <2>1. cgenid' = 0 /\ cgenid' # kgen' /\ lists' = EmptyLists /\ cflags' = {}
      BY DEF Drop, Release, TypeOK
    <2> QED
      BY <2>1, EmptyListsType DEF RestOK
  <1>5. RulesHaveChains'
    BY EmptyListsType DEF Drop, Release, RulesHaveChains, Kinds
  <1> QED
    BY <1>1, <1>2, <1>3, <1>4, <1>5

LEMMA ReplayInv ==
    ASSUME NoWrap, IInv, Replay, UNCHANGED <<kernel, kgen>>,
           nft_genid' \in 0 .. kgen, pc # "idle"
    PROVE  IInv'
  <1> USE DEF IInv
  <1>1. TypeOK'
    BY EmptyListsType, MaxGenAssumption DEF Replay, Release, TypeOK
  <1>2. FlagsOK'
    BY DEF Replay, FlagsOK, Loading
  <1>3. GenOK' /\ LoadOK'
    BY DEF Replay, Release, GenOK, LoadOK, Loading, TypeOK
  <1>4. RestOK'
    <2>1. cgenid' = 0 /\ cgenid' # kgen' /\ lists' = EmptyLists /\ cflags' = {}
      BY DEF Replay, Release, TypeOK
    <2> QED
      BY <2>1, EmptyListsType DEF RestOK
  <1>5. RulesHaveChains'
    BY EmptyListsType DEF Replay, Release, RulesHaveChains, Kinds
  <1> QED
    BY <1>1, <1>2, <1>3, <1>4, <1>5

(* The generation that GETGEN answers is the kernel's.                     *)
LEMMA GetGenExact == NoWrap /\ IInv /\ GetGen => nft_genid' = kgen
  BY WireIsExact DEF IInv, TypeOK, GetGen

LEMMA HitInv == NoWrap /\ IInv /\ GetGenHit => IInv'
  <1> SUFFICES ASSUME NoWrap, IInv, GetGenHit PROVE IInv'
    OBVIOUS
  <1> USE DEF IInv
  <1>1. nft_genid' = kgen /\ genid' = kgen
    BY GetGenExact DEF GetGenHit
  <1>2. TypeOK'
    BY <1>1 DEF GetGenHit, GetGen, kvars, TypeOK
  <1>3. FlagsOK' /\ GenOK' /\ LoadOK'
    BY <1>1 DEF GetGenHit, GetGen, kvars, FlagsOK, GenOK, LoadOK, Loading, TypeOK
  <1>4. RestOK'
    BY DEF GetGenHit, GetGen, kvars, RestOK, Loading, Matches, MayLack
  <1>5. RulesHaveChains'
    BY DEF GetGenHit, RulesHaveChains
  <1> QED
    BY <1>2, <1>3, <1>4, <1>5

LEMMA MissInv == NoWrap /\ IInv /\ GetGenMiss => IInv'
  <1> SUFFICES ASSUME NoWrap, IInv, GetGenMiss PROVE IInv'
    OBVIOUS
  <1> USE DEF IInv
  <1>1. /\ nft_genid' = kgen /\ genid' = kgen
        /\ UNCHANGED <<kernel, kgen, flags>> /\ todo' = {}
        /\ pc = "replay"
        /\ kgen \in 1 .. MaxGen
    BY GetGenExact DEF GetGenMiss, GetGen, kvars, TypeOK
  <1>2. lists' = EmptyLists
    BY <1>1 DEF GetGenMiss, RestOK, Loading
  <1>3. CASE "FLUSHED" \in flags
    <2>1. /\ cgenid' = kgen /\ cflags' = flags \cap {"UPDATE"}
          /\ pc' = "idle" /\ ret' = "loaded"
      BY <1>1, <1>3 DEF GetGenMiss
    <2>2. TypeOK'
      BY <1>1, <1>2, <2>1, EmptyListsType DEF TypeOK
    <2>3. FlagsOK' /\ GenOK' /\ LoadOK'
      BY <1>1, <2>1 DEF FlagsOK, GenOK, LoadOK, Loading, TypeOK
    <2>4. \A t \in Tables, k \in Kinds : Snapshot(kernel, cflags')[t][k] = <<>>
      BY <2>1 DEF Snapshot, Kinds
    <2>5. Matches(Snapshot(kernel, cflags))'
      BY <1>1, <1>2, <2>4, EmptyListsType DEF Matches
    <2>6. RestOK'
      BY <1>1, <1>2, <2>1, <2>5, EmptyListsType DEF RestOK
    <2>7. RulesHaveChains'
      BY <1>2, EmptyListsType DEF RulesHaveChains, Kinds
    <2> QED
      BY <2>2, <2>3, <2>6, <2>7
  <1>4. CASE "FLUSHED" \notin flags
    <2>1. /\ cgenid' = 0 /\ cflags' = {} /\ UNCHANGED ret
          /\ pc' = IF flags = {} THEN "objects" ELSE "tables"
      BY <1>1, <1>4 DEF GetGenMiss, RestOK, Loading
    <2>2. TypeOK'
      BY <1>1, <1>2, <2>1, EmptyListsType, MaxGenAssumption DEF TypeOK
    <2>3. flags \in Requests
      BY <1>1 DEF FlagsOK
    <2>4. flags # {} => "TABLE" \in flags
      BY <1>4, <2>3, RequestsAssumption DEF Kinds, Modifiers
    <2>5. FlagsOK' /\ GenOK'
      BY <1>1, <1>4, <2>1, <2>3, <2>4 DEF FlagsOK, GenOK, Loading, TypeOK
    <2>6. \A t \in Tables, k \in Kinds : ~(k \in flags /\ Done(t, k)')
      BY <1>1, <2>1, <2>4 DEF Done
    <2>7. LoadOK'
      BY <1>1, <1>2, <2>1, <2>6, EmptyListsType DEF LoadOK, Loaded, Matches
    <2>8. RestOK' /\ RulesHaveChains'
      BY <1>2, <2>1, EmptyListsType DEF RestOK, RulesHaveChains, Loading, Kinds
    <2> QED
      BY <2>2, <2>5, <2>7, <2>8
  <1> QED
    BY <1>3, <1>4

LEMMA InterruptedInv == NoWrap /\ IInv /\ DumpInterrupted => IInv'
  <1> SUFFICES ASSUME NoWrap, IInv, DumpInterrupted PROVE IInv'
    OBVIOUS
  <1>1. /\ Replay /\ UNCHANGED <<kernel, kgen>> /\ pc # "idle"
        /\ nft_genid' \in 0 .. kgen
    BY DEF DumpInterrupted, IInv, TypeOK, GenOK
  <1> QED
    BY <1>1, ReplayInv

(* A dump that found something ran at the generation of the load.          *)
LEMMA UndisturbedExact ==
    ASSUME NoWrap, IInv, Loading, ~Disturbed
    PROVE  genid = kgen
  BY WireIsExact DEF IInv, TypeOK, GenOK, Disturbed

(* The tables are listed first, and chains next if they are asked for.     *)
LEMMA TablesInv == NoWrap /\ IInv /\ DumpTables => IInv'
  <1> SUFFICES ASSUME NoWrap, IInv, DumpTables PROVE IInv'
    OBVIOUS
  <1> USE DEF IInv
  <1>1. /\ pc = "tables" /\ pc' \in {"chains", "objects"}
        /\ UNCHANGED <<kernel, kgen, nft_genid, cgenid, cflags, flags, genid, ret>>
        /\ "CHAIN" \in flags <=> pc' = "chains"
        /\ "TABLE" \in flags
    BY DEF DumpTables, FlagsOK
  <1>2. \A t \in Tables, k \in Kinds : lists[t][k] = <<>>
    BY <1>1 DEF LoadOK, Loading, Done
  <1>3. \A t \in Tables :
           lists'[t] = [lists[t] EXCEPT !["TABLE"] = Objects(kernel, t, "TABLE")]
    <2> SUFFICES ASSUME NEW t \in Tables
                 PROVE  lists'[t] = [lists[t] EXCEPT
                                        !["TABLE"] = Objects(kernel, t, "TABLE")]
      OBVIOUS
    <2>1. lists[t]["TABLE"] \o Objects(kernel, t, "TABLE") = Objects(kernel, t, "TABLE")
      BY <1>2, AppendToEmpty DEF TypeOK, Kinds
    <2>2. lists'[t] = [lists[t] EXCEPT !["TABLE"] =
                          lists[t]["TABLE"] \o Objects(kernel, t, "TABLE")]
      BY DEF DumpTables
    <2> QED
      BY <2>1, <2>2
  <1>4. lists' \in [Tables -> [Kinds -> Seq(Stamps)]]
    <2>1. \A t \in Tables : /\ lists[t] \in [Kinds -> Seq(Stamps)]
                            /\ lists[t]["TABLE"] \in Seq(Stamps)
                            /\ Objects(kernel, t, "TABLE") \in Seq(Stamps)
      BY ObjectsType DEF TypeOK, Kinds
    <2>2. ASSUME NEW t \in Tables PROVE lists'[t] \in [Kinds -> Seq(Stamps)]
      <3>1. "TABLE" \in Kinds
        BY DEF Kinds
      <3>2. [lists[t] EXCEPT !["TABLE"] = Objects(kernel, t, "TABLE")]
               \in [Kinds -> Seq(Stamps)]
        BY <2>1, <3>1, ExceptType
      <3> QED
        BY <1>3, <3>2
    <2> QED
      BY <2>2 DEF DumpTables
  <1>5. \A t \in Tables, k \in Kinds :
           lists'[t][k] = IF k = "TABLE" THEN Objects(kernel, t, k) ELSE <<>>
    <2> SUFFICES ASSUME NEW t \in Tables, NEW k \in Kinds
                 PROVE  lists'[t][k] = IF k = "TABLE" THEN Objects(kernel, t, k) ELSE <<>>
      OBVIOUS
    <2>1. lists[t] \in [Kinds -> Seq(Stamps)] /\ lists[t][k] = <<>>
      BY <1>2 DEF TypeOK
    <2>2. Objects(kernel, t, k) \in Seq(Stamps)
      BY ObjectsType DEF TypeOK
    <2>3. CASE k = "TABLE"
      BY <1>3, <2>1, <2>2, <2>3
    <2>4. CASE k # "TABLE"
      BY <1>3, <2>1, <2>4
    <2> QED
      BY <2>3, <2>4
  <1>6. todo' \subseteq Tables \X (flags \cap (Kinds \ {"TABLE", "CHAIN"}))
    BY DEF DumpTables
  <1>7. TypeOK'
    BY <1>1, <1>4, <1>6 DEF TypeOK, DumpTables
  <1>8. FlagsOK' /\ GenOK'
    BY <1>1, <1>6 DEF FlagsOK, GenOK, Loading
  <1>9. ASSUME genid = kgen PROVE Matches(Loaded)'
    <2> SUFFICES ASSUME NEW t \in Tables, NEW k \in Kinds
                 PROVE  lists'[t][k] = Loaded'[t][k]
      BY DEF Matches
    <2>1. Loaded'[t][k] = IF k \in flags /\ Done(t, k)'
                          THEN Objects(kernel, t, k) ELSE <<>>
      BY <1>1 DEF Loaded
    <2>2. CASE k = "TABLE"
      BY <1>1, <1>5, <1>6, <2>1, <2>2 DEF Done
    <2>3. CASE k # "TABLE" /\ ~(k \in flags /\ Done(t, k)')
      BY <1>5, <2>1, <2>3
    <2>4. CASE k # "TABLE" /\ k \in flags /\ Done(t, k)'
      <3>1. pc' = "objects" /\ <<t, k>> \notin todo' /\ k # "CHAIN"
        BY <1>1, <2>4 DEF Done
      <3>2. lists'[t]["TABLE"] = <<>>
        BY <2>4, <3>1 DEF DumpTables
      <3>3. ~Holds(kernel, t, "TABLE")
        BY <1>5, <3>2, ObjectsType DEF TypeOK, Kinds
      <3>4. ~Holds(kernel, t, k)
        BY <3>3 DEF Holds
      <3> QED
        BY <1>5, <2>1, <2>4, <3>4 DEF Objects
    <2> QED
      BY <2>2, <2>3, <2>4
  <1>10. LoadOK'
    <2>1. \A t \in Tables, k \in Kinds : Len(lists'[t][k]) <= 1
      BY <1>5, ObjectsType DEF TypeOK
    <2>2. ASSUME NEW t \in Tables, NEW k \in Kinds, ~(k \in flags /\ Done(t, k)')
          PROVE  lists'[t][k] = <<>>
      BY <1>1, <1>5, <1>6, <2>2 DEF Done
    <2>3. pc' = "chains" => todo' = {t \in Tables : lists'[t]["TABLE"] # <<>>}
                                \X (flags' \cap (Kinds \ {"TABLE", "CHAIN"}))
      BY <1>1 DEF DumpTables
    <2> QED
      BY <1>1, <1>9, <2>1, <2>2, <2>3 DEF LoadOK
  <1>11. RestOK' /\ RulesHaveChains'
    BY <1>1, <1>5 DEF RestOK, Loading, RulesHaveChains, Kinds
  <1> QED
    BY <1>7, <1>8, <1>10, <1>11

LEMMA ChainsInv == NoWrap /\ IInv /\ DumpChains => IInv'
  <1> SUFFICES ASSUME NoWrap, IInv, DumpChains PROVE IInv'
    OBVIOUS
  <1> USE DEF IInv
  <1>1. /\ pc = "chains" /\ pc' = "objects"
        /\ UNCHANGED <<kernel, kgen, nft_genid, cgenid, cflags, flags, genid,
                       todo, ret>>
        /\ {"TABLE", "CHAIN"} \subseteq flags
    BY DEF DumpChains, FlagsOK
  <1>2. \A t \in Tables, k \in Kinds : k # "TABLE" => lists[t][k] = <<>>
    BY <1>1 DEF LoadOK, Loading, Done
  <1>3. \A t \in Tables, k \in Kinds :
           lists'[t][k] = IF k = "CHAIN" /\ lists[t]["TABLE"] # <<>>
                          THEN Objects(kernel, t, "CHAIN") ELSE lists[t][k]
    <2> SUFFICES ASSUME NEW t \in Tables, NEW k \in Kinds
                 PROVE  lists'[t][k] = IF k = "CHAIN" /\ lists[t]["TABLE"] # <<>>
                          THEN Objects(kernel, t, "CHAIN") ELSE lists[t][k]
      OBVIOUS
    <2>1. lists[t] \in [Kinds -> Seq(Stamps)] /\ (k = "CHAIN" => lists[t][k] = <<>>)
      BY <1>2 DEF TypeOK
    <2>2. Objects(kernel, t, k) \in Seq(Stamps)
      BY ObjectsType DEF TypeOK
    <2>3. lists[t]["CHAIN"] \o Objects(kernel, t, "CHAIN") = Objects(kernel, t, "CHAIN")
      BY <1>2, AppendToEmpty DEF TypeOK, Kinds
    <2>4. lists'[t] = IF lists[t]["TABLE"] = <<>> THEN lists[t]
                      ELSE [lists[t] EXCEPT !["CHAIN"] =
                               lists[t]["CHAIN"] \o Objects(kernel, t, "CHAIN")]
      BY DEF DumpChains
    <2>5. lists'[t] = IF lists[t]["TABLE"] = <<>> THEN lists[t]
                      ELSE [lists[t] EXCEPT !["CHAIN"] = Objects(kernel, t, "CHAIN")]
      BY <2>3, <2>4
    <2> QED
      BY <2>1, <2>5
  <1>4. lists' \in [Tables -> [Kinds -> Seq(Stamps)]]
    <2>1. \A t \in Tables, k \in Kinds :
             lists[t][k] \in Seq(Stamps) /\ Objects(kernel, t, k) \in Seq(Stamps)
      BY ObjectsType DEF TypeOK
    <2>2. \A t \in Tables, k \in Kinds : lists'[t][k] \in Seq(Stamps)
      <3> SUFFICES ASSUME NEW t \in Tables, NEW k \in Kinds
                   PROVE  lists'[t][k] \in Seq(Stamps)
        OBVIOUS
      <3>1. CASE k = "CHAIN" /\ lists[t]["TABLE"] # <<>>
        BY <1>3, <2>1, <3>1
      <3>2. CASE ~(k = "CHAIN" /\ lists[t]["TABLE"] # <<>>)
        BY <1>3, <2>1, <3>2
      <3> QED
        BY <3>1, <3>2
    <2>3. \A t \in Tables : lists'[t] = [k \in Kinds |-> lists'[t][k]]
      BY DEF DumpChains, TypeOK
    <2> QED
      BY <2>2, <2>3 DEF DumpChains
  <1>5. TypeOK'
    BY <1>1, <1>4 DEF TypeOK
  <1>6. FlagsOK' /\ GenOK'
    BY <1>1 DEF FlagsOK, GenOK, Loading
  <1>7. ASSUME genid = kgen PROVE Matches(Loaded)'
    <2> SUFFICES ASSUME NEW t \in Tables, NEW k \in Kinds
                 PROVE  lists'[t][k] = Loaded'[t][k]
      BY DEF Matches
    <2>1. Loaded'[t][k] = IF k \in flags /\ Done(t, k)'
                          THEN Objects(kernel, t, k) ELSE <<>>
      BY <1>1 DEF Loaded
    <2>2. lists[t]["TABLE"] = Objects(kernel, t, "TABLE")
      BY <1>1, <1>7 DEF LoadOK, Loading, Matches, MayLack, Loaded, Done, Kinds
    <2>3. CASE k = "TABLE"
      BY <1>1, <1>3, <2>1, <2>2, <2>3 DEF Done, FlagsOK
    <2>4. CASE k = "CHAIN"
      <3>1. lists[t]["TABLE"] = <<>> => Objects(kernel, t, "CHAIN") = <<>>
        BY <2>2, ObjectsType DEF Holds, TypeOK, Kinds
      <3>2. "CHAIN" \in flags /\ Done(t, "CHAIN")'
        BY <1>1 DEF Done, FlagsOK
      <3>3. lists'[t]["CHAIN"] = Objects(kernel, t, "CHAIN")
        <4>1. lists[t]["CHAIN"] = <<>>
          BY <1>2 DEF Kinds
        <4>2. lists'[t]["CHAIN"] = IF lists[t]["TABLE"] # <<>> THEN Objects(kernel, t, "CHAIN") ELSE <<>>
          BY <1>3, <2>4, <4>1
        <4> QED
          BY ONLY <3>1, <4>2
      <3> QED
        BY <2>1, <2>4, <3>2, <3>3
    <2>5. CASE k \notin {"TABLE", "CHAIN"}
      <3>1. lists'[t][k] = <<>>
        BY <1>2, <1>3, <2>5
      <3>2. ASSUME k \in flags, Done(t, k)' PROVE Objects(kernel, t, k) = <<>>
        <4>1. lists[t]["TABLE"] = <<>>
          BY <1>1, <2>5, <3>2 DEF Done, LoadOK, Loading
        <4>2. ~Holds(kernel, t, "TABLE")
          BY <2>2, <4>1, ObjectsType DEF TypeOK, Kinds
        <4> QED
          BY <4>2 DEF Holds, Objects
      <3> QED
        BY <2>1, <3>1, <3>2
    <2> QED
      BY <2>3, <2>4, <2>5
  <1>8. LoadOK'
    <2>1. \A t \in Tables, k \in Kinds : Len(lists'[t][k]) <= 1
      <3>1. \A t \in Tables, k \in Kinds : Len(lists[t][k]) <= 1
        BY <1>1 DEF LoadOK, Loading
      <3>2. \A t \in Tables, k \in Kinds : Len(Objects(kernel, t, k)) <= 1
        BY ObjectsType DEF TypeOK
      <3> SUFFICES ASSUME NEW t \in Tables, NEW k \in Kinds
                   PROVE  Len(lists'[t][k]) <= 1
        OBVIOUS
      <3>3. CASE k = "CHAIN" /\ lists[t]["TABLE"] # <<>>
        BY <1>3, <3>2, <3>3
      <3>4. CASE ~(k = "CHAIN" /\ lists[t]["TABLE"] # <<>>)
        BY <1>3, <3>1, <3>4
      <3> QED
        BY <3>3, <3>4
    <2>2. ASSUME NEW t \in Tables, NEW k \in Kinds, ~(k \in flags /\ Done(t, k)')
          PROVE  lists'[t][k] = <<>>
      <3>1. k \notin {"TABLE", "CHAIN"}
        BY <1>1, <2>2 DEF Done, FlagsOK
      <3> QED
        BY <1>2, <1>3, <3>1
    <2> QED
      BY <1>1, <1>7, <2>1, <2>2 DEF LoadOK
  <1>9. RestOK' /\ RulesHaveChains'
    BY <1>1, <1>2, <1>3 DEF RestOK, Loading, RulesHaveChains, Kinds
  <1> QED
    BY <1>5, <1>6, <1>8, <1>9

(* One list of a table: objects of its kind, or elements if there are sets.*)
LEMMA ObjectsInv == NoWrap /\ IInv /\ (\E t \in Tables, k \in Kinds : DumpObjects(t, k))
                       => IInv'
  <1> SUFFICES ASSUME NoWrap, IInv,
                      NEW t \in Tables, NEW k \in Kinds, DumpObjects(t, k)
               PROVE  IInv'
    OBVIOUS
  <1> USE DEF IInv
  <1>1. /\ pc = "objects" /\ pc' = "objects" /\ Loading /\ Loading'
        /\ UNCHANGED <<kernel, kgen, nft_genid, cgenid, cflags, flags, genid, ret>>
        /\ <<t, k>> \in todo /\ k \in flags /\ k \notin {"TABLE", "CHAIN"}
        /\ todo' = todo \ {<<t, k>>}
    BY DEF DumpObjects, Turn, Loading, FlagsOK
  <1>2. lists[t][k] = <<>>
    BY <1>1 DEF LoadOK, Done
  <1> DEFINE found == IF k = "SETELEM" /\ lists[t]["SET"] = <<>>
                      THEN <<>> ELSE Objects(kernel, t, k)
  <1>3. found \in Seq(Stamps) /\ Len(found) <= 1 /\ <<>> \o found = found
    BY ObjectsType, ConcatEmptySeq DEF TypeOK
  <1>4. lists' = [lists EXCEPT ![t][k] = found]
    <2>1. lists' = [lists EXCEPT ![t][k] = lists[t][k] \o found]
      BY DEF DumpObjects
    <2>2. lists[t][k] \o found = found
      BY <1>2, <1>3
    <2> HIDE DEF found
    <2> QED
      BY <2>1, <2>2
  <1>5. lists' \in [Tables -> [Kinds -> Seq(Stamps)]]
    <2> HIDE DEF found
    <2>1. lists[t] \in [Kinds -> Seq(Stamps)]
      BY DEF TypeOK
    <2>2. [lists[t] EXCEPT ![k] = found] \in [Kinds -> Seq(Stamps)]
      BY <1>3, <2>1, ExceptType
    <2>3. lists' = [lists EXCEPT ![t] = [lists[t] EXCEPT ![k] = found]]
      BY <1>4 DEF TypeOK
    <2> QED
      BY <2>2, <2>3 DEF TypeOK
  <1>6. \A u \in Tables, j \in Kinds :
           lists'[u][j] = IF u = t /\ j = k THEN found ELSE lists[u][j]
    <2> HIDE DEF found
    <2> QED
      BY <1>4 DEF TypeOK
  <1>7. TypeOK'
    BY <1>1, <1>5 DEF TypeOK
  <1>8. FlagsOK' /\ GenOK'
    BY <1>1 DEF FlagsOK, GenOK, Loading
  <1>9. ASSUME genid = kgen PROVE found = Objects(kernel, t, k) \/ (DumpFaults /\ found = <<>>)
    <2> SUFFICES ASSUME k = "SETELEM", lists[t]["SET"] = <<>>, ~DumpFaults
                 PROVE  Objects(kernel, t, k) = <<>>
      BY DumpFaultsAssumption
    <2>1. "SET" \in flags /\ "SET" \in Kinds
      BY <1>1 DEF FlagsOK, Closed, Kinds
    <2>2. <<t, "SET">> \notin todo
      <3>1. /\ 1 \in 1 .. Len(DumpOrder) /\ 2 \in 1 .. Len(DumpOrder)
            /\ DumpOrder[1] = "SET" /\ DumpOrder[2] = "SETELEM"
        BY DEF DumpOrder
      <3>2. DumpOrder[2] = k /\ <<t, DumpOrder[1]>> \in todo => 2 <= 1
        BY <3>1 DEF DumpObjects, Turn
      <3> QED
        BY <3>1, <3>2
    <2>3. lists[t]["SET"] = Objects(kernel, t, "SET")
      BY <1>1, <1>9, <2>1, <2>2 DEF LoadOK, Matches, MayLack, Loaded, Done
    <2>4. ~Holds(kernel, t, "SET")
      BY <2>1, <2>3, ObjectsType DEF TypeOK
    <2>5. ~Holds(kernel, t, "SETELEM")
      BY <2>4, ShapesAssumption DEF Holds, TypeOK, Rulesets, Closed
    <2> QED
      BY <2>5 DEF Objects
  <1>10. ASSUME genid = kgen PROVE Matches(Loaded)'
    <2> SUFFICES ASSUME NEW u \in Tables, NEW j \in Kinds
                 PROVE  \/ lists'[u][j] = Loaded'[u][j]
                        \/ MayLack(j)' /\ lists'[u][j] = <<>>
      BY DEF Matches
    <2>1. Loaded'[u][j] = IF j \in flags /\ <<u, j>> \notin todo'
                          THEN Objects(kernel, u, j) ELSE <<>>
      BY <1>1 DEF Loaded, Done
    <2>2. CASE u = t /\ j = k
      BY <1>1, <1>6, <1>9, <1>10, <2>1, <2>2 DEF MayLack
    <2>3. CASE ~(u = t /\ j = k)
      <3>1. Loaded'[u][j] = Loaded[u][j]
        BY <1>1, <2>1, <2>3 DEF Loaded, Done
      <3>2. MayLack(j) => MayLack(j)'
        BY <1>1 DEF MayLack
      <3>3. lists[u][j] = Loaded[u][j] \/ (MayLack(j) /\ lists[u][j] = <<>>)
        BY <1>1, <1>10 DEF LoadOK, Matches
      <3> QED
        BY <1>6, <2>3, <3>1, <3>2, <3>3
    <2> QED
      BY <2>2, <2>3
  <1>11. LoadOK'
    <2>1. \A u \in Tables, j \in Kinds : Len(lists'[u][j]) <= 1
      BY <1>1, <1>3, <1>6 DEF LoadOK
    <2>2. ASSUME NEW u \in Tables, NEW j \in Kinds, ~(j \in flags /\ Done(u, j)')
          PROVE  lists'[u][j] = <<>>
      <3>1. ~(u = t /\ j = k)
        BY <1>1, <2>2 DEF Done
      <3>2. ~(j \in flags /\ Done(u, j))
        BY <1>1, <2>2 DEF Done
      <3> QED
        BY <1>1, <1>6, <3>1, <3>2 DEF LoadOK
    <2> QED
      BY <1>1, <1>10, <2>1, <2>2 DEF LoadOK
  <1>12. RulesHaveChains'
    <2> SUFFICES ASSUME NEW u \in Tables, NEW i \in 1 .. Len(lists'[u]["RULE"])
                 PROVE  \E j \in 1 .. Len(lists'[u]["CHAIN"]) :
                           lists'[u]["CHAIN"][j] = lists'[u]["RULE"][i]
      BY DEF RulesHaveChains
    <2>1. lists'[u]["CHAIN"] = lists[u]["CHAIN"]
      BY <1>1, <1>6 DEF Kinds
    <2>2. CASE ~(u = t /\ k = "RULE")
      BY <1>6, <2>1, <2>2 DEF RulesHaveChains, Kinds
    <2>3. CASE u = t /\ k = "RULE"
      <3>1. lists'[t]["RULE"] = Objects(kernel, t, "RULE")
        BY <1>6, <2>3
      <3>2. Holds(kernel, t, "RULE")
        BY <2>3, <3>1 DEF Objects
      <3>3. genid = kgen
        BY <1>1, <2>3, <3>2, UndisturbedExact DEF DumpObjects, Undisturbed
      <3>4. "CHAIN" \in flags /\ "CHAIN" \in Kinds
        BY <1>1, <2>3 DEF FlagsOK, Closed, Kinds
      <3>5. lists[t]["CHAIN"] = Objects(kernel, t, "CHAIN")
        BY <1>1, <3>3, <3>4 DEF LoadOK, Matches, MayLack, Loaded, Done, FlagsOK
      <3>6. Holds(kernel, t, "CHAIN")
        BY <3>2, ShapesAssumption DEF Holds, TypeOK, Rulesets, Closed
      <3>7. /\ lists'[u]["RULE"] = <<kernel[t].ver>>
            /\ lists'[u]["CHAIN"] = <<kernel[t].ver>>
        BY <2>1, <2>3, <3>1, <3>2, <3>5, <3>6 DEF Objects
      <3> QED
        BY <3>7
    <2> QED
      BY <2>2, <2>3
  <1>13. RestOK'
    BY <1>1 DEF RestOK
  <1> QED
    BY <1>7, <1>8, <1>11, <1>12, <1>13

(* The failing dumps only leave lists empty.                               *)
LEMMA TablesFailsInv == NoWrap /\ IInv /\ DumpTablesFails => IInv'
  <1> SUFFICES ASSUME NoWrap, IInv, DumpTablesFails PROVE IInv'
    OBVIOUS
  <1> USE DEF IInv
  <1>1. /\ lists' = EmptyLists /\ cgenid' = 0 /\ cflags' = {}
        /\ pc' = "idle" /\ todo' = {} /\ ret' = "failed"
        /\ UNCHANGED <<kernel, kgen, nft_genid, flags, genid>>
    BY DEF DumpTablesFails, Release, Return
  <1>2. TypeOK'
    BY <1>1, EmptyListsType, MaxGenAssumption DEF TypeOK
  <1>3. FlagsOK' /\ GenOK' /\ LoadOK'
    BY <1>1 DEF FlagsOK, GenOK, LoadOK, Loading, TypeOK
  <1>4. cgenid' # kgen'
    BY <1>1 DEF TypeOK
  <1>5. RestOK' /\ RulesHaveChains'
    BY <1>1, <1>4, EmptyListsType DEF RestOK, RulesHaveChains, Kinds
  <1> QED
    BY <1>2, <1>3, <1>5

LEMMA ChainsFailsInv == NoWrap /\ IInv /\ DumpChainsFails => IInv'
  <1> SUFFICES ASSUME NoWrap, IInv, DumpChainsFails PROVE IInv'
    OBVIOUS
  <1> USE DEF IInv
  <1>1. /\ DumpFaults /\ pc = "chains" /\ pc' = "objects" /\ todo' = {}
        /\ Loading /\ Loading'
        /\ UNCHANGED <<kernel, kgen, nft_genid, lists, cgenid, cflags, flags,
                       genid, ret>>
    BY DEF DumpChainsFails, Loading
  <1>2. TypeOK' /\ FlagsOK' /\ GenOK'
    BY <1>1 DEF TypeOK, FlagsOK, GenOK, Loading
  <1>3. \A t \in Tables, k \in Kinds : k # "TABLE" => lists[t][k] = <<>>
    BY <1>1 DEF LoadOK, Done
  <1>4. ASSUME genid = kgen PROVE Matches(Loaded)'
    <2> SUFFICES ASSUME NEW t \in Tables, NEW k \in Kinds
                 PROVE  \/ lists'[t][k] = Loaded'[t][k]
                        \/ MayLack(k)' /\ lists'[t][k] = <<>>
      BY DEF Matches
    <2>1. CASE k # "TABLE"
      BY <1>1, <1>3, <2>1 DEF MayLack
    <2>2. CASE k = "TABLE"
      <3>1. lists[t][k] = Loaded[t][k]
        BY <1>1, <1>4, <2>2 DEF LoadOK, Matches, MayLack
      <3> QED
        BY <1>1, <2>2, <3>1 DEF Loaded, Done
    <2> QED
      BY <2>1, <2>2
  <1>5. LoadOK'
    <2>1. \A t \in Tables, k \in Kinds :
             ~(k \in flags /\ Done(t, k)') => lists[t][k] = <<>>
      BY <1>1, <1>3 DEF Done, FlagsOK
    <2> QED
      BY <1>1, <1>4, <2>1 DEF LoadOK
  <1>6. RestOK' /\ RulesHaveChains'
    BY <1>1 DEF RestOK, RulesHaveChains
  <1> QED
    BY <1>2, <1>5, <1>6

LEMMA ObjectsFailsInv ==
    NoWrap /\ IInv /\ (\E t \in Tables, k \in Kinds : DumpObjectsFails(t, k)) => IInv'
  <1> SUFFICES ASSUME NoWrap, IInv,
                      NEW t \in Tables, NEW k \in Kinds, DumpObjectsFails(t, k)
               PROVE  IInv'
    OBVIOUS
  <1> USE DEF IInv
  <1>1. /\ DumpFaults /\ pc = "objects" /\ pc' = "objects" /\ Loading /\ Loading'
        /\ UNCHANGED <<kernel, kgen, nft_genid, lists, cgenid, cflags, flags,
                       genid, ret>>
        /\ <<t, k>> \in todo /\ k \in flags /\ k \notin {"TABLE", "CHAIN"}
        /\ todo' = todo \ {<<t, k>>}
    BY DEF DumpObjectsFails, Turn, Loading, FlagsOK
  <1>2. TypeOK' /\ FlagsOK' /\ GenOK'
    BY <1>1 DEF TypeOK, FlagsOK, GenOK, Loading
  <1>3. ASSUME genid = kgen PROVE Matches(Loaded)'
    <2> SUFFICES ASSUME NEW u \in Tables, NEW j \in Kinds
                 PROVE  \/ lists'[u][j] = Loaded'[u][j]
                        \/ MayLack(j)' /\ lists'[u][j] = <<>>
      BY DEF Matches
    <2>1. CASE u = t /\ j = k
      BY <1>1, <2>1 DEF LoadOK, Done, MayLack
    <2>2. CASE ~(u = t /\ j = k)
      <3>1. Loaded'[u][j] = Loaded[u][j]
        BY <1>1, <2>2 DEF Loaded, Done
      <3>2. MayLack(j) => MayLack(j)'
        BY <1>1 DEF MayLack
      <3>3. lists[u][j] = Loaded[u][j] \/ (MayLack(j) /\ lists[u][j] = <<>>)
        BY <1>1, <1>3 DEF LoadOK, Matches
      <3> QED
        BY <1>1, <3>1, <3>2, <3>3
    <2> QED
      BY <2>1, <2>2
  <1>4. LoadOK'
    <2>1. \A u \in Tables, j \in Kinds :
             ~(j \in flags /\ Done(u, j)') => ~(j \in flags /\ Done(u, j))
      BY <1>1 DEF Done
    <2> QED
      BY <1>1, <1>3, <2>1 DEF LoadOK
  <1>5. RestOK' /\ RulesHaveChains'
    BY <1>1 DEF RestOK, RulesHaveChains
  <1> QED
    BY <1>2, <1>4, <1>5

LEMMA StopInv == NoWrap /\ IInv /\ GetGenStop => IInv'
  <1> SUFFICES ASSUME NoWrap, IInv, GetGenStop PROVE IInv'
    OBVIOUS
  <1>1. /\ nft_genid' = kgen /\ UNCHANGED <<kernel, kgen>>
        /\ pc = "objects" /\ todo = {} /\ Loading
    BY GetGenExact DEF GetGenStop, GetGen, kvars, Loading
  <1>2. CASE nft_genid' # genid
    <2>1. Replay /\ nft_genid' \in 0 .. kgen
      BY <1>1, <1>2 DEF GetGenStop, IInv, TypeOK
    <2> QED
      BY <1>1, <2>1, ReplayInv
  <1>3. CASE nft_genid' = genid
    <2> USE DEF IInv
    <2>1. /\ cgenid' = genid /\ cflags' = flags /\ pc' = "idle" /\ todo' = {}
          /\ ret' = "loaded" /\ UNCHANGED <<lists, flags, genid>> /\ ~Loading'
          /\ genid = kgen
      BY <1>1, <1>3 DEF GetGenStop, Return, Loading
    <2>2. TypeOK'
      BY <1>1, <2>1 DEF TypeOK, FlagsOK, Modifiers
    <2>3. FlagsOK' /\ GenOK' /\ LoadOK'
      BY <1>1, <2>1 DEF FlagsOK, GenOK, LoadOK, Loading, TypeOK
    <2>4. Loaded = Snapshot(kernel, flags)
      BY <1>1 DEF Loaded, Snapshot, Done
    <2>5. Matches(Snapshot(kernel, cflags))'
      BY <1>1, <2>1, <2>4 DEF LoadOK, Matches, MayLack
    <2>6. RestOK'
      BY <1>1, <2>1, <2>5 DEF RestOK, LoadOK, GenOK
    <2>7. RulesHaveChains'
      BY <2>1 DEF RulesHaveChains
    <2> QED
      BY <2>2, <2>3, <2>6, <2>7
  <1> QED
    BY <1>2, <1>3

LEMMA StepInv == NoWrap /\ IInv /\ [Next]_vars => IInv'
  <1> SUFFICES ASSUME NoWrap, IInv, [Next]_vars PROVE IInv'
    OBVIOUS
  <1>1. CASE Update
    BY <1>1, HitInv, MissInv, InterruptedInv, TablesInv, ChainsInv, ObjectsInv,
       TablesFailsInv, ChainsFailsInv, ObjectsFailsInv, StopInv DEF Update
  <1>2. CASE UNCHANGED vars
    <2>1. TypeOK' /\ FlagsOK' /\ GenOK' /\ RulesHaveChains'
      BY <1>2 DEF IInv, vars, TypeOK, FlagsOK, GenOK, RulesHaveChains, Loading
    <2>2. LoadOK' /\ RestOK'
      BY <1>2 DEF IInv, vars, LoadOK, RestOK, Loading, Matches, MayLack, Loaded, Done
    <2> QED
      BY <2>1, <2>2 DEF IInv
  <1> QED
    BY <1>1, <1>2, CommitInv, CallInv, DropInv DEF Next

LEMMA Invariance == ASSUME NoWrap PROVE Spec => []IInv
  <1>1. Init => IInv
    BY InitInv
  <1>2. IInv /\ [Next]_vars => IInv'
    BY StepInv
  <1> QED
    BY <1>1, <1>2, PTL DEF Spec

(* The variables of cache_update() keep their types.                       *)
THEOREM Typing == ASSUME NoWrap PROVE Spec => []TypeOK
  <1>1. IInv => TypeOK
    BY DEF IInv
  <1> QED
    BY <1>1, Invariance, PTL

LEMMA IdleIsSnapshot ==
    ASSUME IInv, ~Loading, cgenid = kgen, ~DumpFaults
    PROVE  lists = Snapshot(kernel, cflags)
  <1>1. \A t \in Tables, k \in Kinds : lists[t][k] = Snapshot(kernel, cflags)[t][k]
    BY DEF IInv, RestOK, Matches, MayLack
  <1>2. \A t \in Tables : lists[t] = Snapshot(kernel, cflags)[t]
    BY <1>1 DEF IInv, TypeOK, Snapshot
  <1> QED
    BY <1>2 DEF IInv, TypeOK, Snapshot

LEMMA LoadedIsSnapshot ==
    ASSUME IInv, pc = "objects", todo = {}, genid = kgen, ~DumpFaults
    PROVE  lists = Snapshot(kernel, flags)
  <1>1. Loaded = Snapshot(kernel, flags)
    BY DEF Loaded, Snapshot, Done
  <1>2. \A t \in Tables, k \in Kinds : lists[t][k] = Snapshot(kernel, flags)[t][k]
    BY <1>1 DEF IInv, LoadOK, Loading, Matches, MayLack
  <1>3. \A t \in Tables : lists[t] = Snapshot(kernel, flags)[t]
    BY <1>2 DEF IInv, TypeOK, Snapshot
  <1> QED
    BY <1>3 DEF IInv, TypeOK, Snapshot

(* A cache at the kernel's generation is the kernel's ruleset, as long as  *)
(* dumps fail only when they are interrupted (cache.c:397).                *)
THEOREM SnapshotTheorem ==
    ASSUME NoWrap, DumpFaults = FALSE PROVE Spec => []CacheIsSnapshot
  <1>1. IInv => CacheIsSnapshot
    <2> SUFFICES ASSUME IInv, pc = "idle", cgenid = Wire(kgen)
                 PROVE  lists = Snapshot(kernel, cflags)
      BY DEF CacheIsSnapshot
    <2>1. cgenid = kgen /\ ~Loading
      BY WireIsExact DEF IInv, TypeOK, Loading
    <2> QED
      BY <2>1, IdleIsSnapshot
  <1> QED
    BY <1>1, Invariance, PTL

(* Whatever dump fails, nothing is cached that the kernel does not have at *)
(* that generation (netlink.c:455-475).                                    *)
THEOREM NothingForeignTheorem == ASSUME NoWrap PROVE Spec => []NothingForeign
  <1>1. IInv => NothingForeign
    <2> SUFFICES ASSUME IInv, pc = "idle", cgenid = Wire(kgen),
                        NEW t \in Tables, NEW k \in Kinds
                 PROVE  lists[t][k] \in {<<>>, Snapshot(kernel, cflags)[t][k]}
      BY DEF NothingForeign
    <2>1. cgenid = kgen /\ ~Loading
      BY WireIsExact DEF IInv, TypeOK, Loading
    <2> QED
      BY <2>1 DEF IInv, RestOK, Matches
  <1> QED
    BY <1>1, Invariance, PTL

(* The answer that spares a load is gone with the next call.               *)
RInv == RefreshReloads /\ (ret = "hit" => pc = "idle")

(* NFT_CACHE_REFRESH, cache.c:382-385: a command that needs fresh objects   *)
(* never makes do with a loaded cache, on a wire of any width.             *)
THEOREM RefreshReloadsTheorem == Spec => []RefreshReloads
  <1>1. Init => RInv
    BY DEF Init, RInv, RefreshReloads
  <1>2. RInv /\ [Next]_vars => RInv'
    <2> SUFFICES ASSUME RInv, [Next]_vars PROVE RInv'
      OBVIOUS
    <2> USE DEF RInv, RefreshReloads
    <2>1. CASE Commit
      BY <2>1 DEF Commit
    <2>2. ASSUME NEW f \in Requests, Call(f) PROVE RInv'
      BY <2>2 DEF Call
    <2>3. CASE Drop
      BY <2>3 DEF Drop, Release
    <2>4. CASE GetGenHit
      BY <2>4 DEF GetGenHit, IsComplete, NeedsRefresh
    <2>5. CASE GetGenMiss
      BY <2>5 DEF GetGenMiss
    <2>6. CASE DumpInterrupted
      BY <2>6 DEF DumpInterrupted, Replay
    <2>7. CASE DumpTables
      BY <2>7 DEF DumpTables
    <2>8. CASE DumpChains
      BY <2>8 DEF DumpChains
    <2>9. ASSUME NEW t \in Tables, NEW k \in Kinds, DumpObjects(t, k) PROVE RInv'
      BY <2>9 DEF DumpObjects
    <2>10. CASE DumpTablesFails \/ DumpChainsFails
      BY <2>10 DEF DumpTablesFails, DumpChainsFails, Return
    <2>11. ASSUME NEW t \in Tables, NEW k \in Kinds, DumpObjectsFails(t, k) PROVE RInv'
      BY <2>11 DEF DumpObjectsFails, Return
    <2>12. CASE GetGenStop
      BY <2>12 DEF GetGenStop, Return, Replay
    <2>13. CASE UNCHANGED vars
      BY <2>13 DEF vars
    <2> QED
      BY <2>1, <2>2, <2>3, <2>4, <2>5, <2>6, <2>7, <2>8, <2>9, <2>10, <2>11, <2>12, <2>13
         DEF Next, Update
  <1>3. RInv => RefreshReloads
    BY DEF RInv
  <1> QED
    BY <1>1, <1>2, <1>3, PTL DEF Spec

(* cache_init_objects() never follows a null chain (cache.c:336-343).      *)
THEOREM RulesHaveChainsTheorem == ASSUME NoWrap PROVE Spec => []RulesHaveChains
  <1>1. IInv => RulesHaveChains
    BY DEF IInv
  <1> QED
    BY <1>1, Invariance, PTL

(* No object is cached twice (cache.c:415, 427, 435).                      *)
THEOREM NothingTwiceTheorem == ASSUME NoWrap PROVE Spec => []NothingTwice
  <1>1. IInv => NothingTwice
    BY DEF IInv, LoadOK, RestOK, NothingTwice
  <1> QED
    BY <1>1, Invariance, PTL

-----------------------------------------------------------------------------
(* The operators of Ruleset are the same in CacheSnapshot.                 *)
LEMMA SameRuleset ==
    /\ CS!Kinds = Kinds
    /\ CS!NoTable = NoTable
    /\ CS!EmptyLists = EmptyLists
    /\ \A g : CS!Contents(g) = Contents(g)
    /\ \A ker, g : CS!Commits(ker, g) = Commits(ker, g)
    /\ \A ker, l : CS!Snapshot(ker, l) = Snapshot(ker, l)
  <1>1. CS!Kinds = Kinds /\ CS!NoTable = NoTable
    BY DEF CS!Kinds, Kinds, CS!NoTable, NoTable
  <1>2. CS!EmptyLists = EmptyLists
    BY <1>1 DEF CS!EmptyLists, EmptyLists
  <1>3. \A g : CS!Contents(g) = Contents(g)
    BY <1>1 DEF CS!Contents, Contents
  <1>4. \A ker, g : CS!Commits(ker, g) = Commits(ker, g)
    <2> SUFFICES ASSUME NEW ker, NEW g PROVE CS!Commits(ker, g) = Commits(ker, g)
      OBVIOUS
    <2>1. CS!Contents(g) = Contents(g)
      BY <1>3
    <2>2. CS!Commits(ker, g) \subseteq Commits(ker, g)
      BY <2>1 DEF CS!Commits, Commits
    <2>3. Commits(ker, g) \subseteq CS!Commits(ker, g)
      BY <2>1 DEF CS!Commits, Commits
    <2> QED
      BY <2>2, <2>3
  <1>5. \A ker, t, k : CS!Objects(ker, t, k) = Objects(ker, t, k)
    BY DEF CS!Objects, Objects, CS!Holds, Holds
  <1>6. \A ker, l : CS!Snapshot(ker, l) = Snapshot(ker, l)
    BY <1>1, <1>5 DEF CS!Snapshot, Snapshot
  <1> QED
    BY <1>1, <1>2, <1>3, <1>4, <1>6

LEMMA SnapshotOfKinds ==
    ASSUME NEW ker, NEW l
    PROVE  /\ Snapshot(ker, l) = Snapshot(ker, l \cap Kinds)
           /\ Snapshot(ker, {}) = EmptyLists
  BY DEF Snapshot, EmptyLists

(* A return of the code is a return of CacheSnapshot when the lists are a  *)
(* snapshot at the level of the new flags.                                 *)
LEMMA ReturnMaps ==
    ASSUME pc # "idle", pc' = "idle", UNCHANGED <<kernel, kgen, flags>>,
           cflags' \subseteq Kinds \cup {"REFRESH", "UPDATE"},
           lists' = Snapshot(kernel, cflags'),
           IF "FLUSHED" \in flags THEN cflags' \cap Kinds = {}
                                  ELSE flags \cap Kinds \subseteq cflags'
    PROVE  CS!SReturn
  <1>1. lists' = Snapshot(kernel, cflags' \cap Kinds)
    BY SnapshotOfKinds
  <1> QED
    BY <1>1, SameRuleset DEF CS!SReturn

(* For its callers cache_update() is atomic: every step is a step of       *)
(* CacheSnapshot or leaves the view alone (cache.c:397-444).               *)
THEOREM RefinementTheorem ==
    ASSUME NoWrap, DumpFaults = FALSE PROVE Spec => ImplementsCacheSnapshot
  <1>1. Init => CS!SInit
    BY SameRuleset DEF Init, CS!SInit
  <1>2. IInv /\ IInv' /\ [Next]_vars => [CS!SNext]_(CS!svars)
    <2> SUFFICES ASSUME IInv, IInv', [Next]_vars
                 PROVE  CS!SNext \/ UNCHANGED CS!svars
      OBVIOUS
    <2> USE DEF CS!SNext
    <2>1. CASE Commit
      BY <2>1, SameRuleset DEF Commit, CS!SCommit
    <2>2. ASSUME NEW f \in Requests, Call(f) PROVE CS!SCall(f)
      BY <2>2, SameRuleset DEF Call, CS!SCall
    <2>3. CASE Drop
      BY <2>3, SameRuleset DEF Drop, Release, CS!SDrop
    <2>4. ASSUME pc # "idle", cgenid = kgen, ~Loading
          PROVE  lists = Snapshot(kernel, cflags)
      BY <2>4, IdleIsSnapshot
    <2>5. CASE GetGenHit
      <3>1. /\ nft_genid' = kgen /\ nft_genid' = cgenid /\ flags \subseteq cflags
            /\ pc = "replay" /\ pc' = "idle"
            /\ UNCHANGED <<kernel, kgen, flags, lists, cflags>>
        BY <2>5, GetGenExact DEF GetGenHit, GetGen, kvars, IsUpdated, IsComplete
      <3>2. lists' = Snapshot(kernel, cflags')
        BY <2>4, <3>1 DEF Loading
      <3>3. cflags \subseteq Kinds \cup {"REFRESH", "UPDATE"} /\ "FLUSHED" \notin flags
        BY <3>1 DEF IInv, TypeOK, Kinds
      <3> QED
        BY <3>1, <3>2, <3>3, ReturnMaps
    <2>6. CASE GetGenMiss
      <3>1. /\ pc = "replay" /\ ~Loading /\ UNCHANGED <<kernel, kgen, flags>>
        BY <2>6 DEF GetGenMiss, GetGen, kvars, Loading
      <3>2. CASE "FLUSHED" \in flags
        <4>1. lists' = EmptyLists /\ cflags' = flags \cap {"UPDATE"} /\ pc' = "idle"
          BY <2>6, <3>1, <3>2 DEF GetGenMiss, IInv, RestOK
        <4>2. cflags' \cap Kinds = {}
          BY <4>1 DEF Kinds
        <4>3. lists' = Snapshot(kernel, cflags')
          BY <4>1, <4>2, SnapshotOfKinds
        <4> QED
          BY <3>1, <3>2, <4>1, <4>2, <4>3, ReturnMaps
      <3>3. CASE "FLUSHED" \notin flags
        <4>1. pc' # "idle"
          BY <2>6, <3>3 DEF GetGenMiss
        <4> QED
          BY <3>1, <4>1 DEF CS!svars
      <3> QED
        BY <3>2, <3>3
    <2>7. CASE GetGenStop
      <3>1. /\ pc = "objects" /\ UNCHANGED <<kernel, kgen, flags>>
            /\ nft_genid' = kgen
        BY <2>7, GetGenExact DEF GetGenStop, GetGen, kvars, Return, Replay
      <3>2. CASE nft_genid' = genid
        <4>1. pc' = "idle" /\ cgenid' = kgen' /\ cflags' = flags
          BY <2>7, <3>1, <3>2 DEF GetGenStop, Return
        <4>2. lists' = Snapshot(kernel, cflags')
          BY <2>7, <3>1, <3>2, <4>1, LoadedIsSnapshot DEF GetGenStop, Return
        <4>3. cflags' \subseteq Kinds \cup {"REFRESH", "UPDATE"} /\ "FLUSHED" \notin flags
          BY <3>1, <4>1 DEF IInv, TypeOK, FlagsOK, Loading
        <4> QED
          BY <3>1, <4>1, <4>2, <4>3, ReturnMaps
      <3>3. CASE nft_genid' # genid
        <4>1. pc' # "idle"
          BY <2>7, <3>3 DEF GetGenStop, Replay
        <4> QED
          BY <3>1, <4>1 DEF CS!svars
      <3> QED
        BY <3>2, <3>3
    <2>8. CASE \/ DumpInterrupted \/ DumpTables \/ DumpChains
               \/ \E t \in Tables, k \in Kinds : DumpObjects(t, k)
      <3>1. pc # "idle" /\ pc' # "idle" /\ UNCHANGED <<kernel, kgen, flags>>
        BY <2>8 DEF DumpInterrupted, Replay, DumpTables, DumpChains, DumpObjects
      <3> QED
        BY <3>1 DEF CS!svars
    <2>9. CASE UNCHANGED vars
      BY <2>9 DEF vars, CS!svars
    <2> QED
      BY <2>1, <2>2, <2>3, <2>5, <2>6, <2>7, <2>8, <2>9
         DEF Next, Update, DumpTablesFails, DumpChainsFails, DumpObjectsFails
  <1> QED
    BY <1>1, <1>2, Invariance, PTL DEF Spec, ImplementsCacheSnapshot, CS!SSpec
=============================================================================
