---------------------------- MODULE LinkedHashMap ----------------------------
(***************************************************************************)
(* tc::linked_hash_map: the table of map_utils.hpp and, through the same   *)
(* entries, a doubly linked chain in the order of addition or access.  The *)
(* node of an entry is named by its key.  Several maps, each with its      *)
(* allocator, are constructed, copied, moved, changed and destroyed while  *)
(* any allocation of a call may fail.                                      *)
(***************************************************************************)
EXTENDS MapUtils, Chains

CONSTANTS
  Maps, Values,
  Allocators,         \* the allocators clients name
  DefaultAllocator,   \* get_default_allocator()
  Pairs,              \* the <<key, value>> pairs clients store
  HashAfterMove,      \* what THASHER computes for what a moved key leaves behind
  Capacities,         \* the initial_capacity values clients pass
  AccessOrders,       \* the access_order values
  LoadFactors,        \* the load_factor values, as [num, den]
  MaxEntries,         \* the clients' remove_eldest_entry says yes beyond so many
  MaxQuota            \* bound: the allocations of one call that may succeed

LinkedMapAssumption ==
  /\ Nil \notin Keys /\ Pairs \subseteq Keys \X Values
  /\ HashAfterMove \in [Keys -> Nat]
  /\ Capacities \subseteq Nat /\ MaxEntries \in Nat /\ MaxQuota \in Nat
  /\ AccessOrders \subseteq BOOLEAN
  /\ LoadFactors \subseteq [num : Nat, den : Nat \ {0}]

VARIABLES
  maps,   \* live map -> [alloc, table, nodes, head, tail, size, load_factor, access_order]
  out,    \* allocator -> [nodes, arrays]: the blocks it has handed out
  ret     \* how the last call ended

vars == << maps, out, ret >>
live == DOMAIN maps
-----------------------------------------------------------------------------
(* The state of a call: the map, how many of the allocations that succeed  *)
(* are still to come, whether an exception is on its way, and the blocks   *)
(* taken less those given back.                                            *)

Call(m, quota) == [map |-> m, quota |-> quota, ok |-> TRUE, nodes |-> 0, arrays |-> 0]
Throw(c) == [c EXCEPT !.ok = FALSE]

Fresh(a, lf, ao) ==
  [alloc |-> a, table |-> << >>, nodes |-> << >>, head |-> Nil, tail |-> Nil,
   size |-> 0, load_factor |-> lf, access_order |-> ao]
Loaded(m) == m.size * m.load_factor.den >= m.load_factor.num * Len(m.table)

ensure_capacity(c) ==
  IF c.map.table # << >> /\ ~Loaded(c.map) THEN c
  ELSE IF c.quota = 0 THEN Throw(c)
  ELSE [c EXCEPT !.quota = @ - 1,
                 !.map.table = rehash(@, NewCapacity(Len(@))),
                 !.arrays = IF c.map.table = << >> THEN @ + 1 ELSE @]

With(f, i, x) == [y \in DOMAIN f \cup {i} |-> IF y = i THEN x ELSE f[y]]
Without(f, S) == [y \in DOMAIN f \ S |-> f[y]]

\* The entry of key k leaves its bucket and the chain and is freed.
Removed(m, k) ==
  [Unlink(m, k) EXCEPT !.table[Bucket(m.table, Hash[k])] = SelectSeq(@, LAMBDA e : e.key # k),
                       !.nodes = Without(@, {k}), !.size = @ - 1]

\* alloc_entry, append_entry, link_last; then the eldest may go.  `h' is what
\* the bucket is computed from.
AddEntry(c, k, v, h) ==
  LET m == [c.map EXCEPT !.table = append_entry(@, Bucket(@, h), [key |-> k, val |-> v, hash |-> Hash[k]]),
                         !.nodes = With(@, k, [prev |-> Nil, next |-> Nil]), !.size = @ + 1]
      linked == LinkLast(m, k)
  IN IF c.quota = 0 THEN Throw(c)
     ELSE IF linked.size > MaxEntries
       THEN [c EXCEPT !.quota = @ - 1, !.map = Removed(linked, linked.head)]
     ELSE [c EXCEPT !.quota = @ - 1, !.nodes = @ + 1, !.map = linked]

\* unlink and link_last.
\* Mutant: the entry is linked at the end and not unlinked first.
MoveToEndTwice(m, k) == LinkLast(m, k)
MoveToEnd(m, k) == LinkLast(Unlink(m, k), k)

\* An entry that is there is renewed, whatever the access order.
put1(c, k, v, h) ==
  IF find_entry(c.map.table, k) # {}
  THEN [c EXCEPT !.map = MoveToEnd([@ EXCEPT !.table = SetValue(@, k, v)], k)]
  ELSE LET d == ensure_capacity(c) IN IF d.ok THEN AddEntry(d, k, v, h) ELSE d
insert1(c, k, v) ==
  IF find_entry(c.map.table, k) # {} THEN c
  ELSE LET d == ensure_capacity(c) IN IF d.ok THEN AddEntry(d, k, v, Hash[k]) ELSE d

\* What a loop from begin() to end() meets.
ValueOf(m, k) == (CHOOSE e \in ToSet(Entries(m.table)) : e.key = k).val
Visited(m) == LET w == Forward(m) IN [p \in DOMAIN w |-> [key |-> w[p], val |-> ValueOf(m, w[p])]]

put_all1(c, s) ==
  FoldLeft(LAMBDA d, e : IF d.ok THEN put1(d, e.key, e.val, Hash[e.key]) ELSE d, c, s)
insert_all1(c, s) ==
  FoldLeft(LAMBDA d, e : IF d.ok THEN insert1(d, e.key, e.val) ELSE d, c, s)
-----------------------------------------------------------------------------
(* The calls *)

\* clear() frees what the chain meets from the head on.
Nothing == [nodes |-> 0, arrays |-> 0]
Held(m) == [nodes |-> Len(Forward(m)), arrays |-> IF m.table = << >> THEN 0 ELSE 1]
Account(a, taken, given) ==
  out' = [out EXCEPT ![a] = [nodes |-> @.nodes + taken.nodes - given.nodes,
                             arrays |-> @.arrays + taken.arrays - given.arrays]]
Ends(c, r) == c.quota = 0 /\ ret' = IF c.ok THEN r ELSE "threw"

\* A call that changes map i alone.
Commit(i, c, r) == Ends(c, r) /\ maps' = With(maps, i, c.map) /\ Account(c.map.alloc, c, Nothing)
\* An exception after which every block taken has been given back.
Undone == ret' = "threw" /\ UNCHANGED << maps, out >>

Init == maps = << >> /\ out = [a \in Allocators \cup {DefaultAllocator} |-> Nothing] /\ ret = "done"

construct(i, a, cap, lf, ao, quota) ==
  /\ i \notin live
  /\ IF cap = 0 THEN Commit(i, Call(Fresh(a, lf, ao), quota), "done")
     ELSE IF quota = 0 THEN Undone
     ELSE LET m == [Fresh(a, lf, ao) EXCEPT !.table = Buckets(cap)]
          IN Commit(i, [Call(m, quota - 1) EXCEPT !.arrays = 1], "done")

\* The copy is made by the default constructor, with the default allocator.  A
\* source has no more entries than the copy may have, so nothing is evicted.
DefaultLoadFactor == [num |-> 3, den |-> 4]
copy_construct(i, j, quota) ==
  LET c == insert_all1(Call(Fresh(DefaultAllocator, DefaultLoadFactor, FALSE), quota), Visited(maps[j]))
  IN i \notin live /\ IF c.ok THEN Commit(i, c, "done") ELSE Undone

move_construct(i, j) ==
  /\ i \notin live
  /\ maps' = With(With(maps, i, maps[j]), j,
                  Fresh(maps[j].alloc, maps[j].load_factor, maps[j].access_order))
  /\ ret' = "done" /\ UNCHANGED out

\* tmp is filled, swapped with *this and destroyed with the old entries.
copy_assign(i, j, quota) ==
  LET c == insert_all1(Call(Fresh(maps[i].alloc, maps[i].load_factor, maps[i].access_order), quota),
                    Visited(maps[j]))
  IN IF ~c.ok THEN Undone
     ELSE /\ Ends(c, "done")
          /\ maps' = With(maps, i, c.map) /\ Account(maps[i].alloc, c, Held(maps[i]))

\* Equal allocators: all but the allocator is swapped.  Otherwise *this = map.
move_assign(i, j) ==
  /\ maps[i].alloc = maps[j].alloc
  /\ maps' = With(With(maps, i, maps[j]), j, maps[i])
  /\ ret' = "done" /\ UNCHANGED out
move_assign_copies(i, j, quota) == maps[i].alloc # maps[j].alloc /\ copy_assign(i, j, quota)

\* `h' is the hash of the caller's key after it was forwarded into the entry.
put(i, k, v, h, quota) == Commit(i, put1(Call(maps[i], quota), k, v, h), "yes")
insert(i, k, v, quota) ==
  Commit(i, insert1(Call(maps[i], quota), k, v),
         IF find_entry(maps[i].table, k) = {} THEN "yes" ELSE "no")

replace(i, k, v) ==
  /\ IF find_entry(maps[i].table, k) = {} THEN ret' = "no" /\ maps' = maps
     ELSE ret' = "yes" /\ maps' = [maps EXCEPT ![i].table = SetValue(@, k, v)]
  /\ UNCHANGED out

\* get and get_or_default; a get that finds nothing throws.
get(i, k) ==
  /\ IF find_entry(maps[i].table, k) = {} THEN ret' = "no" /\ maps' = maps
     ELSE /\ ret' = "yes"
          /\ maps' = IF maps[i].access_order THEN [maps EXCEPT ![i] = MoveToEnd(@, k)] ELSE maps
  /\ UNCHANGED out

remove(i, k) ==
  IF maps[i].size = 0 \/ find_entry(maps[i].table, k) = {}
  THEN ret' = "no" /\ UNCHANGED << maps, out >>
  ELSE /\ maps' = [maps EXCEPT ![i] = Removed(@, k)] /\ ret' = "yes"
       /\ Account(maps[i].alloc, Nothing, [nodes |-> 1, arrays |-> 0])

clear(i) ==
  /\ maps' = [maps EXCEPT ![i] = [Fresh(@.alloc, @.load_factor, @.access_order)
                                    EXCEPT !.table = Buckets(Len(maps[i].table))]]
  /\ Account(maps[i].alloc, Nothing, [Held(maps[i]) EXCEPT !.arrays = 0]) /\ ret' = "done"

put_all(i, j, quota) == Commit(i, put_all1(Call(maps[i], quota), Visited(maps[j])), "done")
insert_all(i, j, quota) == Commit(i, insert_all1(Call(maps[i], quota), Visited(maps[j])), "done")

destroy(i) ==
  /\ maps' = Without(maps, {i})
  /\ Account(maps[i].alloc, Nothing, Held(maps[i])) /\ ret' = "done"

\* The calls that allocate: for one entry, an array and a node at the most, and
\* for all the entries of another map.
OneEntry(i, quota) ==
  \/ \E a \in Allocators, cap \in Capacities, lf \in LoadFactors, ao \in AccessOrders :
       construct(i, a, cap, lf, ao, quota)
  \/ /\ i \in live
     /\ \E p \in Pairs :
          \/ insert(i, p[1], p[2], quota)
          \/ \E h \in {Hash[p[1]], HashAfterMove[p[1]]} : put(i, p[1], p[2], h, quota)
AllEntries(i, quota) ==
  \E j \in live \ {i} :
    \/ copy_construct(i, j, quota)
    \/ /\ i \in live
       /\ \/ copy_assign(i, j, quota) \/ move_assign_copies(i, j, quota)
          \/ put_all(i, j, quota) \/ insert_all(i, j, quota)

Next ==
  \E i \in Maps :
    \/ \E quota \in 0 .. MaxQuota : (quota <= 2 /\ OneEntry(i, quota)) \/ AllEntries(i, quota)
    \/ \E j \in live \ {i} : move_construct(i, j) \/ (i \in live /\ move_assign(i, j))
    \/ /\ i \in live
       /\ \/ clear(i) \/ destroy(i)
          \/ \E k \in Keys : remove(i, k) \/ get(i, k)
          \/ \E p \in Pairs : replace(i, p[1], p[2])

Spec == Init /\ [][Next]_vars
-----------------------------------------------------------------------------
(* What the properties of the run are stated with. *)

\* The chain, which iterators follow, and the table hold the same entries,
\* each findable by its key.
MeetsAll(m) ==
  /\ WellLinked(m) /\ DOMAIN m.nodes = {k \in Keys : find_entry(m.table, k) # {}}
  /\ m.size = Cardinality(DOMAIN m.nodes) /\ m.size = Len(Entries(m.table))

\* The blocks of allocator a that live maps can still reach.
PaidBack(a) ==
  LET mine == {i \in live : maps[i].alloc = a}
  IN /\ out[a].nodes = FoldSet(LAMBDA i, n : n + Held(maps[i]).nodes, 0, mine)
     /\ out[a].arrays = FoldSet(LAMBDA i, n : n + Held(maps[i]).arrays, 0, mine)
=============================================================================
