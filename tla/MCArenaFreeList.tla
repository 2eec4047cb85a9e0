-------------------------- MODULE MCArenaFreeList --------------------------
(* Instances of ArenaFreeList for TLC. *)
EXTENDS ArenaFreeList

\* A request that leaves a hole between two smaller ones.
PlainRequests == [sz : {16, 70}, align : {16}]
=============================================================================
