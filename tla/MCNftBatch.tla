----------------------------- MODULE MCNftBatch -----------------------------
(* Instances of NftBatch for TLC.                                          *)
EXTENDS NftBatch, TLC

CONSTANTS query, rule, set, import, flush

MCCommands == {query, rule, set, import, flush}
MCMsgsOf == query :> 0 @@ rule :> 1 @@ set :> 3 @@ import :> 0 @@ flush :> 1

UpTo(n, S) == UNION {[1 .. m -> S] : m \in 0 .. n}

MCBatches      == UpTo(3, {query, rule, set, import, flush})
LossyBatches   == UpTo(2, {rule, set})
=============================================================================
