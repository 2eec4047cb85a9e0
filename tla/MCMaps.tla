------------------------------- MODULE MCMaps -------------------------------
(***************************************************************************)
(* hash_map and linked_hash_map side by side, with keys that collide in    *)
(* two buckets and part in three.  A client uses one of the two at a time: *)
(* maps of the other kind come into being only when none of the first is   *)
(* left.                                                                   *)
(***************************************************************************)
EXTENDS Naturals, TLC

CONSTANTS
  Maps, Allocators, LinkedAllocators, DefaultAllocator, Keys, Values, Pairs, Hash, HashAfterMove,
  MinCapacity, Capacities, LinkedCapacities, LinkedPairs,
  AccessOrders, LoadFactors, MaxEntries, MaxQuota

VARIABLES
  tables, tableBlocks, tableRet,      \* the hash maps
  linked, linkedBlocks, linkedRet,    \* the linked hash maps
  held, order                         \* auxiliary: what each live map of either kind
                                      \* holds, and does it keep access order
H == INSTANCE HashMap WITH maps <- tables, out <- tableBlocks, ret <- tableRet
L == INSTANCE LinkedHashMap WITH maps <- linked, out <- linkedBlocks, ret <- linkedRet,
                                 Capacities <- LinkedCapacities, Allocators <- LinkedAllocators,
                                 Pairs <- LinkedPairs
ASSUME H!HashAssumption /\ H!MapAssumption /\ L!LinkedMapAssumption

hashVars == << tables, tableBlocks, tableRet >>
linkedVars == << linked, linkedBlocks, linkedRet >>

Held ==
  [hash   |-> [i \in H!live |-> H!Contents(tables[i])],
   linked |-> [i \in L!live |-> L!Visited(linked[i])]]
Order == [i \in L!live |-> linked[i].access_order]

Init == H!Init /\ L!Init /\ held = Held /\ order = Order
Next ==
  /\ \/ L!live = {} /\ linkedRet = "done" /\ H!Next /\ UNCHANGED linkedVars
     \/ H!live = {} /\ tableRet = "done" /\ L!Next /\ UNCHANGED hashVars
  /\ held' = Held' /\ order' = Order'
Spec == Init /\ [][Next]_<< hashVars, linkedVars, held, order >>
-----------------------------------------------------------------------------
SomePairs == {<< 1, "u" >>, << 1, "v" >>, << 3, "u" >>, << 5, "u" >>}
OnePairPerKey == {<< 1, "u" >>, << 3, "u" >>, << 5, "v" >>}
OwnHash == [k \in Keys |-> k]
ThreeQuarters == {[num |-> 3, den |-> 4]}
Symmetry == Permutations(Maps) \cup Permutations(Allocators)

\* An allocator has handed out exactly the nodes and arrays its live maps can
\* still reach: no failed, copied or moved-from map leaks one or frees it twice
\* (hash_map.hpp:810-838, linked_hash_map.hpp:941-971).
EntriesPaidBack ==
  /\ \A a \in Allocators : H!PaidBack(a)
  /\ \A a \in LinkedAllocators \cup {DefaultAllocator} : L!PaidBack(a)

\* A loop over a map meets each entry a lookup would find, once, and ends; the
\* chain of a linked_hash_map and its table hold the same entries.
IterationMeetsAll ==
  /\ \A i \in H!live : H!MeetsAll(tables[i])
  /\ \A i \in L!live : L!MeetsAll(linked[i])

MapPromise   == INSTANCE MapContract WITH contents <- held.hash, ret <- tableRet
OrderPromise == INSTANCE OrderedMapContract WITH contents <- held.linked, ret <- linkedRet

\* Whatever is rehashed, copied or moved and wherever an allocation fails,
\* every call does to the maps what its comment says or throws and changes
\* nothing (put_all and insert_all: nothing but a part of their work); in a
\* linked_hash_map the order is a part of it: an entry that is added, put or, in
\* access order, looked up is the youngest, and the eldest is evicted.
ImplementsMaps == MapPromise!Spec /\ OrderPromise!Spec
=============================================================================
