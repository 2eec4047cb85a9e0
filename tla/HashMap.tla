------------------------------ MODULE HashMap ------------------------------
(***************************************************************************)
(* tc::hash_map with the functions of map_utils.hpp: several maps, each    *)
(* with its allocator, are constructed, copied, moved, changed and         *)
(* destroyed while any of the allocations a call makes may fail.  A table  *)
(* is a sequence of chains; bucket 0 of the code is its first element.     *)
(***************************************************************************)
EXTENDS MapUtils

CONSTANTS
  Maps, Allocators, Values,
  Pairs,           \* the <<key, value>> pairs clients store
  HashAfterMove,   \* the number it computes for what a moved key leaves behind
  Capacities,      \* the initial_capacity values clients pass
  LoadFactors,     \* the load_factor values, as [num, den]
  MaxQuota         \* bound: the allocations of one call that may succeed

MapAssumption ==
  /\ Pairs \subseteq Keys \X Values
  /\ HashAfterMove \in [Keys -> Nat]
  /\ Capacities \subseteq Nat /\ MaxQuota \in Nat
  /\ LoadFactors \subseteq [num : Nat, den : Nat \ {0}]

VARIABLES
  maps,   \* live map -> [alloc, table, size, load_factor]
  out,    \* allocator -> [nodes, arrays]: the blocks it has handed out
  ret     \* how the last call ended

vars == << maps, out, ret >>
live == DOMAIN maps
-----------------------------------------------------------------------------
(* The iterator *)

\* iterator_impl::operator++: the rest of the chain from m_node on, and the
\* next bucket to look at.
\* Mutant: a chain is left after its first entry.
StepLeavesChain(t, it) ==
  LET later == {b \in it.idx .. Len(t) : t[b] # << >>}
  IN IF later = {} THEN [it EXCEPT !.rest = << >>]
     ELSE [idx |-> Min(later) + 1, rest |-> t[Min(later)]]
Step(t, it) ==
  LET later == {b \in it.idx .. Len(t) : t[b] # << >>}
  IN IF Len(it.rest) > 1 THEN [it EXCEPT !.rest = Tail(@)]
     ELSE IF later = {} THEN [it EXCEPT !.rest = << >>]
     ELSE [idx |-> Min(later) + 1, rest |-> t[Min(later)]]

\* What a loop from begin() to end() meets, cut off one step after the last
\* entry should have been met.
Visited(t) ==
  LET n == Len(Entries(t)) + 1
      it[j \in 0 .. n] == IF j = 0 THEN [idx |-> 1, rest |-> << >>] ELSE Step(t, it[j - 1])
      chains == SelectSeq([j \in 1 .. n |-> it[j].rest], LAMBDA r : r # << >>)
  IN [j \in DOMAIN chains |-> Head(chains[j])]
-----------------------------------------------------------------------------
(* The state of a call: the map, how many of the allocations that succeed  *)
(* are still to come, whether an exception is on its way, and the blocks   *)
(* taken so far.  A call that ends well has used its quota up, one that    *)
(* throws asked for more.  An exception from a key's or value's            *)
(* constructor ends the call like a refused node: the node is given back.  *)

Call(m, quota) == [map |-> m, quota |-> quota, ok |-> TRUE, nodes |-> 0, arrays |-> 0]
Throw(c) == [c EXCEPT !.ok = FALSE]

Fresh(a, lf) == [alloc |-> a, table |-> << >>, size |-> 0, load_factor |-> lf]
Overloaded(m) == m.size * m.load_factor.den > m.load_factor.num * Len(m.table)

ensure_capacity(c) ==
  IF c.map.table # << >> /\ ~Overloaded(c.map) THEN c
  ELSE IF c.quota = 0 THEN Throw(c)
  ELSE [c EXCEPT !.quota = @ - 1,
                 !.map.table = rehash(@, NewCapacity(Len(@))),
                 !.arrays = IF c.map.table = << >> THEN @ + 1 ELSE @]

\* alloc_entry and append_entry; `h' is what the bucket is computed from.
AddEntry(c, k, v, h) ==
  IF c.quota = 0 THEN Throw(c)
  ELSE [c EXCEPT !.quota = @ - 1, !.nodes = @ + 1, !.map.size = @ + 1,
                 !.map.table = append_entry(@, Bucket(@, h), [key |-> k, val |-> v, hash |-> Hash[k]])]

put1(c, k, v) ==
  IF find_entry(c.map.table, k) # {} THEN [c EXCEPT !.map.table = SetValue(@, k, v)]
  ELSE LET d == ensure_capacity(c) IN IF d.ok THEN AddEntry(d, k, v, Hash[k]) ELSE d

insert1(c, k, v, h) ==
  LET d == ensure_capacity(c)
  IN IF d.ok /\ find_entry(d.map.table, k) = {} THEN AddEntry(d, k, v, h) ELSE d

put_all1(c, t) ==
  FoldLeft(LAMBDA d, e : IF d.ok THEN put1(d, e.key, e.val) ELSE d, c, Visited(t))
insert_all1(c, t) ==
  FoldLeft(LAMBDA d, e : IF d.ok THEN insert1(d, e.key, e.val, Hash[e.key]) ELSE d, c, Visited(t))
-----------------------------------------------------------------------------
(* The calls *)

With(f, i, x) == [y \in DOMAIN f \cup {i} |-> IF y = i THEN x ELSE f[y]]

\* What a map holds of its allocator; clear() and the array's destructor give
\* all of it back.
Held(m) == [nodes |-> Len(Entries(m.table)), arrays |-> IF m.table = << >> THEN 0 ELSE 1]
Nothing == [nodes |-> 0, arrays |-> 0]

Account(a, taken, given) ==
  out' = [out EXCEPT ![a] = [nodes |-> @.nodes + taken.nodes - given.nodes,
                             arrays |-> @.arrays + taken.arrays - given.arrays]]
Ends(c, r) == c.quota = 0 /\ ret' = IF c.ok THEN r ELSE "threw"

\* A call that changes map i alone.
Commit(i, c, r) == Ends(c, r) /\ maps' = With(maps, i, c.map) /\ Account(c.map.alloc, c, Nothing)
\* An exception after which every block taken has been given back.
Undone == ret' = "threw" /\ UNCHANGED << maps, out >>

Init == maps = << >> /\ out = [a \in Allocators |-> Nothing] /\ ret = "done"

construct(i, a, cap, lf, quota) ==
  /\ i \notin live
  /\ IF cap = 0 THEN Commit(i, Call(Fresh(a, lf), quota), "done")
     ELSE IF quota = 0 THEN Undone
     ELSE LET m == [Fresh(a, lf) EXCEPT !.table = Buckets(cap)]
          IN Commit(i, [Call(m, quota - 1) EXCEPT !.arrays = 1], "done")

DefaultLoadFactor == [num |-> 3, den |-> 4]
copy_construct(i, j, quota) ==
  LET c == insert_all1(Call(Fresh(maps[j].alloc, DefaultLoadFactor), quota), maps[j].table)
  IN i \notin live /\ IF c.ok THEN Commit(i, c, "done") ELSE Undone

move_construct(i, j) ==
  /\ i \notin live
  /\ maps' = With(With(maps, i, maps[j]), j, [maps[j] EXCEPT !.table = << >>, !.size = 0])
  /\ ret' = "done" /\ UNCHANGED out

\* tmp is filled, swapped with *this and destroyed with the old entries.
\* Mutant: the old entries are not given back.
CopyAssignNoClear(i, j, quota) ==
  LET c == insert_all1(Call(Fresh(maps[i].alloc, maps[i].load_factor), quota), maps[j].table)
  IN IF ~c.ok THEN Undone
     ELSE /\ Ends(c, "done")
          /\ maps' = With(maps, i, c.map) /\ Account(maps[i].alloc, c, Nothing)
copy_assign(i, j, quota) ==
  LET c == insert_all1(Call(Fresh(maps[i].alloc, maps[i].load_factor), quota), maps[j].table)
  IN IF ~c.ok THEN Undone
     ELSE /\ Ends(c, "done")
          /\ maps' = With(maps, i, c.map) /\ Account(maps[i].alloc, c, Held(maps[i]))

\* Equal allocators: the tables are swapped.  Otherwise *this = map copies.
move_assign(i, j) ==
  /\ maps[i].alloc = maps[j].alloc
  /\ maps' = With(With(maps, i, maps[j]), j, maps[i])
  /\ ret' = "done" /\ UNCHANGED out
move_assign_copies(i, j, quota) == maps[i].alloc # maps[j].alloc /\ copy_assign(i, j, quota)

put(i, k, v, quota) == Commit(i, put1(Call(maps[i], quota), k, v), "yes")

\* `h' is the hash of the caller's key after it was forwarded into the entry.
insert(i, k, v, h, quota) ==
  LET c == insert1(Call(maps[i], quota), k, v, h)
  IN Commit(i, c, IF c.nodes = 1 THEN "yes" ELSE "no")

replace(i, k, v) ==
  /\ maps' = IF find_entry(maps[i].table, k) = {} THEN maps
             ELSE [maps EXCEPT ![i].table = SetValue(@, k, v)]
  /\ ret' = "no" /\ UNCHANGED out

remove(i, k) ==
  LET m == maps[i]
      Other(e) == e.key # k
      b == Bucket(m.table, Hash[k])
  IN IF m.size = 0 \/ find_entry(m.table, k) = {}
     THEN ret' = "no" /\ UNCHANGED << maps, out >>
     ELSE /\ maps' = [maps EXCEPT ![i].table[b] = SelectSeq(@, Other), ![i].size = @ - 1]
          /\ Account(m.alloc, Nothing, [nodes |-> 1, arrays |-> 0]) /\ ret' = "yes"

clear(i) ==
  /\ maps' = [maps EXCEPT ![i].table = Buckets(Len(@)), ![i].size = 0]
  /\ Account(maps[i].alloc, Nothing, [Held(maps[i]) EXCEPT !.arrays = 0]) /\ ret' = "done"

put_all(i, j, quota) == Commit(i, put_all1(Call(maps[i], quota), maps[j].table), "done")
insert_all(i, j, quota) == Commit(i, insert_all1(Call(maps[i], quota), maps[j].table), "done")

destroy(i) ==
  /\ maps' = [j \in live \ {i} |-> maps[j]]
  /\ Account(maps[i].alloc, Nothing, Held(maps[i])) /\ ret' = "done"

\* The calls that allocate: for one entry, an array and a node at the most, and
\* for all the entries of another map.
OneEntry(i, quota) ==
  \/ \E a \in Allocators, cap \in Capacities, lf \in LoadFactors : construct(i, a, cap, lf, quota)
  \/ /\ i \in live
     /\ \E p \in Pairs :
          \/ put(i, p[1], p[2], quota)
          \/ \E h \in {Hash[p[1]], HashAfterMove[p[1]]} : insert(i, p[1], p[2], h, quota)
AllEntries(i, quota) ==
  \E j \in live \ {i} :
    \/ copy_construct(i, j, quota)
    \/ /\ i \in live
       /\ \/ copy_assign(i, j, quota) \/ move_assign_copies(i, j, quota)
          \/ put_all(i, j, quota) \/ insert_all(i, j, quota)

Next ==
  \E i \in Maps :
    \/ \E quota \in 0 .. MaxQuota : (quota <= 2 /\ OneEntry(i, quota)) \/ AllEntries(i, quota)
    \/ \E j \in live \ {i} : move_construct(i, j) \/ (i \in live /\ move_assign(i, j))
    \/ /\ i \in live
       /\ \/ clear(i) \/ destroy(i)
          \/ \E k \in Keys : remove(i, k)
          \/ \E p \in Pairs : replace(i, p[1], p[2])

Spec == Init /\ [][Next]_vars
-----------------------------------------------------------------------------
(* What the properties of the run are stated with. *)

\* What a client finds in map m.
Contents(m) ==
  LET found == UNION {find_entry(m.table, k) : k \in Keys}
  IN [k \in {e.key : e \in found} |-> (CHOOSE e \in found : e.key = k).val]

\* The blocks of allocator a that live maps can still reach, counted by their
\* sizes and by their chains.
PaidBack(a) ==
  LET mine == {i \in live : maps[i].alloc = a}
  IN /\ out[a].nodes = FoldSet(LAMBDA i, n : n + maps[i].size, 0, mine)
     /\ out[a].nodes = FoldSet(LAMBDA i, n : n + Held(maps[i]).nodes, 0, mine)
     /\ out[a].arrays = FoldSet(LAMBDA i, n : n + Held(maps[i]).arrays, 0, mine)

\* A loop over map m meets each entry a lookup would find, once, and ends.
MeetsAll(m) ==
  LET w == Visited(m.table)
      f == Contents(m)
  IN /\ Len(w) = m.size
     /\ Len(w) = Cardinality(DOMAIN f)
     /\ \A p \in DOMAIN w : w[p].key \in DOMAIN f /\ w[p].val = f[w[p].key]
=============================================================================
