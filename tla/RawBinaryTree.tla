--------------------------- MODULE RawBinaryTree ---------------------------
(***************************************************************************)
(* tc::raw_binary_tree as the allocators use it: an intrusive index of     *)
(* entries whose keys may repeat and are fixed while an entry is linked.   *)
(***************************************************************************)
EXTENDS BinaryTree

CONSTANTS
  Items,    \* the entries a client may link
  Keys      \* their keys

ASSUME KeysAssumption == Keys \subseteq Nat

VARIABLES
  m_root,   \* the tree
  key       \* entry -> key, for the entries the client has linked

vars == << m_root, key >>

linked == DOMAIN key

Init == m_root = Nil /\ key = << >>

insert_entry(e, k) ==
  /\ e \notin linked
  /\ key' = [x \in linked \cup {e} |-> IF x = e THEN k ELSE key[x]]
  /\ m_root' = insert_entry0(m_root, e, key')

\* Whatever a removal returns is no longer linked.
Unlink(r) ==
  /\ m_root' = r.tree
  /\ key' = [x \in linked \ {e \in linked : r.deleted = << e >>} |-> key[x]]

\* remove_entry(node*) of a linked entry, and remove_entry(const K&).
remove_entry(e) == e \in linked /\ Unlink(remove_entry0(m_root, e, key))
remove_entry_by_key(k) == Unlink(remove_key0(m_root, k, key))

Next ==
  \/ \E e \in Items : \/ \E k \in Keys : insert_entry(e, k)
                      \/ remove_entry(e)
  \/ \E k \in Keys : remove_entry_by_key(k)

Spec == Init /\ [][Next]_vars
-----------------------------------------------------------------------------
(* Properties *)

\* Each entry once, in key order; equal keys may be on either side.
Sorted(t) ==
  LET o == InOrder(t)
  IN \A i, j \in DOMAIN o : i < j => o[i] # o[j] /\ key[o[i]] <= key[o[j]]
Indexes(t, entries) == Entries(t) = entries /\ Sorted(t)

Having(k) == {e \in linked : key[e] = k}

\* The tree indexes exactly the linked entries, so no rotation or removal lost
\* one.  remove_entry finds every linked entry, however many others share its
\* key (the assertion of both allocators' unlink), removal by key finds one of
\* its entries iff there is one, and neither removes anything else.
RemovalFinds ==
  /\ Indexes(m_root, linked)
  /\ \A e \in linked :
       LET r == remove_entry0(m_root, e, key)
       IN r.deleted = << e >> /\ Indexes(r.tree, linked \ {e})
  /\ \A k \in Keys :
       LET r == remove_key0(m_root, k, key)
       IN IF Having(k) = {} THEN r.deleted = Nil /\ Entries(r.tree) = linked
          ELSE \E e \in Having(k) : r.deleted = << e >> /\ Entries(r.tree) = linked \ {e}

AtLeast(k) == {e \in linked : key[e] >= k}
AtMost(k)  == {e \in linked : key[e] <= k}

\* ceil_entry, floor_entry and search_entry return what an ordered set would:
\* this is the choice that FreeListAllocator takes from its set of blocks.
LookupsAreExact ==
  \A k \in Keys :
    /\ IF AtLeast(k) = {} THEN ceil_entry(m_root, k, key) = Nil
       ELSE \E e \in AtLeast(k) : /\ ceil_entry(m_root, k, key) = << e >>
                                  /\ \A x \in AtLeast(k) : key[e] <= key[x]
    /\ IF AtMost(k) = {} THEN floor_entry(m_root, k, key) = Nil
       ELSE \E e \in AtMost(k) : /\ floor_entry(m_root, k, key) = << e >>
                                 /\ \A x \in AtMost(k) : key[x] <= key[e]
    /\ IF Having(k) = {} THEN search_entry(m_root, k, key) = Nil
       ELSE \E e \in Having(k) : search_entry(m_root, k, key) = << e >>
    /\ linked # {} =>
         /\ \E e \in linked : first_entry(m_root) = << e >> /\ \A x \in linked : key[e] <= key[x]
         /\ \E e \in linked : last_entry(m_root) = << e >> /\ \A x \in linked : key[x] <= key[e]

\* Although a new leaf has the height of nullptr, no node's subtrees differ
\* by more than two levels and no stored height is off by more than one, so
\* the rotations of balance() always have the child they turn around.
NearlyBalanced ==
  \A s \in Subtrees(m_root) :
    /\ Depth(s.left) - Depth(s.right) \in -2 .. 2
    /\ Depth(s) - s.height \in 0 .. 1
=============================================================================
