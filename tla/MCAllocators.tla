---------------------------- MODULE MCAllocators ----------------------------
(***************************************************************************)
(* The arena, the pools over a linear_allocator and the threads that share *)
(* a pool through a synchronized_allocator.  The three have no state in    *)
(* common, so an execution is about one of them: the others stay idle.     *)
(***************************************************************************)
EXTENDS PoolAllocator, SynchronizedAllocator

CONSTANTS
  m_free_size, m_alignas, ArenaRequests   \* ArenaFreeList

VARIABLES
  kind,   \* which of the three is in use
  arena, live, m_min_block_size, arena_state

Arena == INSTANCE ArenaFreeList WITH Requests <- ArenaRequests, state <- arena_state

ASSUME Arena!ArenaAssumption

arena_vars == << arena, live, m_min_block_size, arena_state >>
all == << kind, arena_vars, pool_vars, vars >>

Start ==
  /\ kind \in {"arena", "pools", "threads"}
  /\ Arena!Init /\ (kind # "arena" => arena_state = "no_data")
  /\ PoolInit /\ (kind # "pools" => ~linear.buffer)
  /\ Init /\ wrapper[CHOOSE w \in Wrappers : TRUE].st = "usable"   \* one of equals

InArena   == kind = "arena" /\ Arena!Next /\ UNCHANGED << kind, pool_vars, vars >>
InPools   == kind = "pools" /\ PoolNext /\ UNCHANGED << kind, arena_vars, vars >>
InThreads == kind = "threads" /\ Next /\ UNCHANGED << kind, arena_vars, pool_vars >>

Behaviour ==
  /\ Start /\ [][InArena \/ InPools \/ InThreads]_all
  /\ \A t \in Threads : WF_vars(InCall(t))
-----------------------------------------------------------------------------
\* Requests that leave a hole between two smaller ones.
PlainRequests == [sz : {16, 70}, align : {16}]

\* Direct clients: allocate(40), which leaves the offset at half a unit, and an
\* aligned request.
MixedRequests == {[sz |-> 40, align |-> 1], [sz |-> 16, align |-> 16]}
TwoParams == {[bucket_size |-> 20, count |-> 2, align |-> 16],
              [bucket_size |-> 8, count |-> 2, align |-> 1]}
TwoRequests == {[sz |-> 20, align |-> 16], [sz |-> 8, align |-> 8]}
-----------------------------------------------------------------------------
\* The headers of the arena lead from one to the next over the whole buffer
\* (arena_free_list_allocator.cpp:177-210).
HeadersChain == Arena!HeadersChain

\* Every block of the arena is linked once or owned by one pointer
\* (arena_free_list_allocator.cpp:125-139).
LinkedOrOwned == Arena!LinkedOrOwned

\* The arena keeps the promise of tca::allocator: what it grants overlaps
\* nothing that is held (arena_free_list_allocator.cpp:151-216).
ImplementsContract == Arena!ImplementsContract
=============================================================================
