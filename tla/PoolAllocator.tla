--------------------------- MODULE PoolAllocator ---------------------------
(***************************************************************************)
(* tca::pool_allocator objects that take their pages from one              *)
(* linear_allocator, which clients also use directly.  A page is cut into  *)
(* buckets of one size; free buckets form a stack.  Pools are constructed, *)
(* moved and destroyed; a move must leave each bucket with one owner.      *)
(***************************************************************************)
EXTENDS LinearAllocator, Sequences, SequencesExt

CONSTANTS
  Pools,         \* the pool_allocator objects
  Params,        \* [bucket_size, count, align]: constructor arguments
  PoolRequests   \* [sz, align] pairs asked of the pools

PAGE_HEADER  == 32   \* sizeof(page_header)
BUCKET_ALIGN == 8    \* alignof(bucket)

\* What a constructor may be given.  The code checks none of it: a bucket has
\* bytes, and of two alignments, which are powers of two, the smaller divides
\* the larger.
Alignments == {BUCKET_ALIGN} \cup {x.align : x \in Params \cup PoolRequests}
ASSUME PoolAssumption ==
  /\ \A c \in Params :
       c.bucket_size \in Nat \ {0} /\ c.count \in Nat /\ c.align \in Nat \ {0}
  /\ PoolRequests \subseteq [sz : Nat, align : Nat \ {0}]
  /\ \A a, b \in Alignments : a <= b => b % a = 0

VARIABLES
  pool,      \* pool -> [st, parent, f]: life, m_parent, and the other fields
  clients,   \* bucket -> [sz, align, by]: what clients hold, and from which pool
  state      \* "running", "assert_failed" or "undefined"

pool_vars == << linear, granted, pool, clients, state >>

GreaterOf(a, b) == IF a >= b THEN a ELSE b

\* "Unset" stands for fields no constructor wrote.
Unset   == [set |-> FALSE, pages |-> << >>, free_list |-> << >>,
            align |-> 0, bucket_size |-> 0, cnt |-> 0]
Default == [Unset EXCEPT !.set = TRUE]
Made(c) ==
  LET align == GreaterOf(c.align, BUCKET_ALIGN)
  IN [Default EXCEPT !.align = align, !.bucket_size = AlignUp(c.bucket_size, align),
                     !.cnt = c.count]
None    == [st |-> "none", parent |-> FALSE, f |-> Unset]

PoolInit == LinearInit /\ pool = [p \in Pools |-> None] /\ clients = << >> /\ state = "running"
-----------------------------------------------------------------------------
(* Pages and buckets *)

header_size(f)  == AlignUp(PAGE_HEADER, GreaterOf(f.align, BUCKET_ALIGN))
PageRequest(f)  == [sz |-> header_size(f) + f.cnt * f.bucket_size,
                    align |-> GreaterOf(f.align, BUCKET_ALIGN), for |-> "buckets"]

\* Mutant: a bucket is as long as its alignment.
BucketsTooClose(f, page) ==
  [i \in 1..f.cnt |-> page + header_size(f) + (f.cnt - i) * f.align]
\* The buckets of a page in the order allocate pops them: the last one first.
BucketsOf(f, page) ==
  [i \in 1..f.cnt |-> page + header_size(f) + (f.cnt - i) * f.bucket_size]

\* The page is not linked into `pages': nothing in the class assigns it.
WithPage(f, page) == [f EXCEPT !.free_list = BucketsOf(f, page) \o @]

Popped(f)    == [f EXCEPT !.free_list = Tail(@)]
Pushed(f, b) == [f EXCEPT !.free_list = << b >> \o @]
-----------------------------------------------------------------------------
(* Life of the pools *)

Running == state = "running"
Usable(p) == Running /\ pool[p].st = "usable"

construct(p, c) ==
  /\ Running /\ pool[p].st = "none"
  /\ pool' = [pool EXCEPT ![p] = [st |-> "usable", parent |-> TRUE, f |-> Made(c)]]
  /\ UNCHANGED << linear, granted, clients, state >>

default_construct(p) ==
  /\ Running /\ pool[p].st = "none"
  /\ pool' = [pool EXCEPT ![p] = [st |-> "usable", parent |-> FALSE, f |-> Default]]
  /\ UNCHANGED << linear, granted, clients, state >>

By(p) == {b \in DOMAIN clients : clients[b].by = p}
HandOver(s, d) ==
  [b \in DOMAIN clients |-> IF clients[b].by = s THEN [clients[b] EXCEPT !.by = d] ELSE clients[b]]

\* The fields of the new pool are swapped in before any of them was written.
pool_move_construct(d, s) ==
  /\ Usable(s) /\ pool[d].st = "none"
  /\ pool' = [pool EXCEPT ![d] = pool[s],
                          ![s] = [st |-> "moved", parent |-> FALSE, f |-> Unset]]
  /\ clients' = HandOver(s, d)
  /\ UNCHANGED << linear, granted, state >>

\* Mutant: the source keeps its fields.
MoveAssignCopies(d, s) ==
  /\ d # s /\ Usable(s) /\ Running /\ pool[d].st \in {"usable", "moved"}
  /\ pool' = [pool EXCEPT ![d] = pool[s],
                          ![s] = [st |-> "moved", parent |-> FALSE, f |-> pool[s].f]]
  /\ LET kept == Drop(clients, By(d))
     IN clients' = [b \in DOMAIN kept |-> [kept[b] EXCEPT !.by = IF @ = s THEN d ELSE @]]
  /\ UNCHANGED << linear, granted, state >>
\* The receiver's old fields end up in the source, whose m_parent is null.
\* By the documentation the receiver's old buckets are gone for their clients.
move_assign(d, s) ==
  /\ d # s /\ Usable(s) /\ pool[d].st \in {"usable", "moved"}
  /\ pool' = [pool EXCEPT ![d] = pool[s],
                          ![s] = [st |-> "moved", parent |-> FALSE, f |-> pool[d].f]]
  /\ LET kept == Drop(clients, By(d))
     IN clients' = [b \in DOMAIN kept |-> [kept[b] EXCEPT !.by = IF @ = s THEN d ELSE @]]
  /\ UNCHANGED << linear, granted, state >>

\* Every page linked in `pages' goes back to m_parent.
DestroySet(p) ==
  /\ pool[p].f.set
  /\ granted' = Drop(granted, ToSet(pool[p].f.pages))
  /\ pool' = [pool EXCEPT ![p] = None]
  /\ clients' = Drop(clients, By(p))
  /\ UNCHANGED << linear, state >>

\* The list that starts at an unwritten `pages' is walked; it may be empty.
DestroyUnset(p) ==
  /\ ~pool[p].f.set
  /\ state' \in {"running", "undefined"}
  /\ pool' = [pool EXCEPT ![p] = None]
  /\ clients' = Drop(clients, By(p))
  /\ UNCHANGED << linear, granted >>

destroy(p) ==
  /\ Running /\ pool[p].st \in {"usable", "moved"}
  /\ DestroySet(p) \/ DestroyUnset(p)
-----------------------------------------------------------------------------
(* Requests; one that yields nullptr changes nothing and is no step *)

Accepts(f, r) == r.sz <= f.bucket_size /\ r.align <= f.align

Give(p, f, r) ==
  /\ pool' = [pool EXCEPT ![p].f = Popped(f)]
  /\ clients' = Put(clients, Head(f.free_list), [sz |-> r.sz, align |-> r.align, by |-> p])
  /\ UNCHANGED state

AllocPop(p, r) ==
  LET f == pool[p].f
  IN /\ f.free_list # << >>
     /\ Give(p, f, r)
     /\ UNCHANGED << linear, granted >>

\* allocate_page: page_new asserts that the page has the alignment asked for.
AllocPage(p, r) ==
  LET f == pool[p].f
      page == Place(linear, PageRequest(f))
  IN /\ f.free_list = << >> /\ pool[p].parent /\ f.cnt > 0
     /\ LinearAllocate(PageRequest(f))
     /\ IF page % f.align = 0
        THEN Give(p, WithPage(f, page), r)
        ELSE state' = "assert_failed" /\ UNCHANGED << pool, clients >>

allocate(p, r) ==
  /\ Usable(p) /\ Accepts(pool[p].f, r)
  /\ AllocPop(p, r) \/ AllocPage(p, r)

deallocate(b) ==
  LET p == clients[b].by
  IN /\ Usable(p)
     /\ pool' = [pool EXCEPT ![p].f = Pushed(@, b)]
     /\ clients' = Drop(clients, {b})
     /\ UNCHANGED << linear, granted, state >>

\* Clients of the linear allocator itself.
Pages == {a \in DOMAIN granted : granted[a] \notin Requests}
DirectAllocate(r) == Running /\ LinearAllocate(r) /\ UNCHANGED << pool, clients, state >>
DirectDeallocate(a) ==
  Running /\ a \notin Pages /\ LinearDeallocate(a) /\ UNCHANGED << pool, clients, state >>
\* The linear allocator outlives the pools that use its pages.
Reset ==
  /\ Running /\ \A p \in Pools : pool[p].st = "none"
  /\ LinearReset /\ UNCHANGED << pool, clients, state >>

PoolNext ==
  \/ \E p \in Pools : \/ \E c \in Params : construct(p, c)
                      \/ default_construct(p)
                      \/ \E s \in Pools : pool_move_construct(p, s) \/ move_assign(p, s)
                      \/ \E r \in PoolRequests : allocate(p, r)
                      \/ destroy(p)
  \/ \E b \in DOMAIN clients : deallocate(b)
  \/ \E r \in Requests : DirectAllocate(r)
  \/ \E a \in DOMAIN granted : DirectDeallocate(a)
  \/ Reset

PoolSpec == PoolInit /\ [][PoolNext]_pool_vars
-----------------------------------------------------------------------------
(* Properties *)

FreeOf(p) == ToSet(pool[p].f.free_list)

\* A bucket is in one free list, at one place, or with one client: whatever
\* was moved where, no later call hands it out twice.
BucketsOnce ==
  /\ \A p \in Pools : IsInjective(pool[p].f.free_list)
  /\ \A p \in Pools : FreeOf(p) \cap DOMAIN clients = {}
  /\ \A p, q \in Pools : p # q => FreeOf(p) \cap FreeOf(q) = {}

\* No client's region touches another one's, of a pool or of the linear
\* allocator, and each has the room and the alignment asked of its pool.  (A
\* direct client's alignment is left out: see LinearAllocator's Skip.)
PoolClientsApart ==
  /\ \A b \in DOMAIN clients :
       clients[b].sz <= pool[clients[b].by].f.bucket_size /\ b % clients[b].align = 0
  /\ \A b, c \in DOMAIN clients : b < c => b + clients[b].sz <= c
  /\ \A b \in DOMAIN clients : \A a \in DOMAIN granted \ Pages :
       b + clients[b].sz <= a \/ a + granted[a].sz <= b
  /\ \A a, c \in DOMAIN granted : a < c => a + granted[a].sz <= c
=============================================================================
