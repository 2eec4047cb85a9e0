----------------------------- MODULE BinaryTree -----------------------------
(***************************************************************************)
(* The recursive functions of tc::raw_binary_tree (raw_binary_tree.hpp) as *)
(* operators on trees.  A node is its entry, the height stored in it and   *)
(* its two subtrees; the key of an entry is read from `key' each time, as  *)
(* the code reads it from the entry, so that it may change while the entry *)
(* is linked.                                                              *)
(***************************************************************************)
EXTENDS Integers, Sequences

Nil == << >>
Node(e, h, l, r) == [entry |-> e, height |-> h, left |-> l, right |-> r]

GreaterOf(a, b) == IF a >= b THEN a ELSE b

get_height(t) == IF t = Nil THEN 0 ELSE t.height
get_balance_factor(t) == get_height(t.left) - get_height(t.right)

calc_height(t) ==
  [t EXCEPT !.height = GreaterOf(get_height(t.left), get_height(t.right)) + 1]

\* Mutant: the inner grandchild is dropped.
RightRotateDropsInner(b) ==
  [b.left EXCEPT !.right = calc_height([b EXCEPT !.left = Nil])]
right_rotate(b) ==
  calc_height([b.left EXCEPT !.right = calc_height([b EXCEPT !.left = b.left.right])])
left_rotate(b) ==
  calc_height([b.right EXCEPT !.left = calc_height([b EXCEPT !.right = b.right.left])])

\* Mutant: a zig-zag is not straightened before the rotation.
BalanceNoDouble(n) ==
  LET t == calc_height(n)
      f == get_balance_factor(t)
  IN CASE f > 1  -> right_rotate(t)
       [] f < -1 -> left_rotate(t)
       [] OTHER  -> t
balance(n) ==
  LET t == calc_height(n)
      f == get_balance_factor(t)
  IN CASE f > 1 ->
            right_rotate(IF get_balance_factor(t.left) < 0
                         THEN [t EXCEPT !.left = left_rotate(@)] ELSE t)
       [] f < -1 ->
            left_rotate(IF get_balance_factor(t.right) > 0
                        THEN [t EXCEPT !.right = right_rotate(@)] ELSE t)
       [] OTHER -> t

\* insert_entry0: equal keys go right.  The new node is a leaf of height 0,
\* the height balance() gives to no node.
RECURSIVE insert_entry0(_, _, _)
insert_entry0(t, e, key) ==
  IF t = Nil THEN Node(e, 0, Nil, Nil)
  ELSE balance(IF key[e] >= key[t.entry]
               THEN [t EXCEPT !.right = insert_entry0(@, e, key)]
               ELSE [t EXCEPT !.left = insert_entry0(@, e, key)])

\* find_remove_min: the tree without its least node, and that node.
RECURSIVE find_remove_min(_)
find_remove_min(t) ==
  IF t.left = Nil THEN [tree |-> t.right, min |-> t]
  ELSE LET sub == find_remove_min(t.left)
       IN [tree |-> balance([t EXCEPT !.left = sub.tree]), min |-> sub.min]

\* The node is taken out: its successor takes its place.
Unlinked(t) ==
  IF t.right = Nil THEN t.left
  ELSE LET sub == find_remove_min(t.right)
       IN balance([sub.min EXCEPT !.right = sub.tree, !.left = t.left])

Removed(t, d) == [tree |-> t, deleted |-> d]
InRight(t, sub) == Removed(balance([t EXCEPT !.right = sub.tree]), sub.deleted)
InLeft(t, sub)  == Removed(balance([t EXCEPT !.left = sub.tree]), sub.deleted)

\* remove_entry0(key): the first node met that has the key.
RECURSIVE remove_key0(_, _, _)
remove_key0(t, k, key) ==
  CASE t = Nil          -> Removed(Nil, Nil)
    [] t # Nil /\ k > key[t.entry] -> InRight(t, remove_key0(t.right, k, key))
    [] t # Nil /\ k < key[t.entry] -> InLeft(t, remove_key0(t.left, k, key))
    [] OTHER            -> Removed(Unlinked(t), << t.entry >>)

\* Mutant: duplicates are looked for on the right only.
RECURSIVE RemoveEntryRightOnly(_, _, _)
RemoveEntryRightOnly(t, e, key) ==
  CASE t = Nil -> Removed(Nil, Nil)
    [] t # Nil /\ e = t.entry -> Removed(Unlinked(t), << e >>)
    [] t # Nil /\ e # t.entry /\ key[e] >= key[t.entry]
         -> InRight(t, RemoveEntryRightOnly(t.right, e, key))
    [] OTHER -> InLeft(t, RemoveEntryRightOnly(t.left, e, key))

\* remove_entry0(entry): among equal keys the right subtree is searched, and
\* the left one when nothing was deleted there.
RECURSIVE remove_entry0(_, _, _)
remove_entry0(t, e, key) ==
  CASE t = Nil -> Removed(Nil, Nil)
    [] t # Nil /\ key[e] > key[t.entry] -> InRight(t, remove_entry0(t.right, e, key))
    [] t # Nil /\ key[e] < key[t.entry] -> InLeft(t, remove_entry0(t.left, e, key))
    [] t # Nil /\ e = t.entry -> Removed(Unlinked(t), << e >>)
    [] OTHER ->
         LET right == remove_entry0(t.right, e, key)
             left  == IF right.deleted = Nil THEN remove_entry0(t.left, e, key)
                                             ELSE Removed(t.left, right.deleted)
         IN Removed(balance([t EXCEPT !.right = right.tree, !.left = left.tree]), left.deleted)

\* ceil_entry, floor_entry and search_entry walk down from the root; the
\* result is the tuple of the entry found, empty for nullptr.
RECURSIVE CeilFrom(_, _, _, _)
CeilFrom(t, k, key, best) ==
  CASE t = Nil -> best
    [] t # Nil /\ k = key[t.entry] -> << t.entry >>
    [] t # Nil /\ k > key[t.entry] -> CeilFrom(t.right, k, key, best)
    [] OTHER -> CeilFrom(t.left, k, key, << t.entry >>)

RECURSIVE FloorFrom(_, _, _, _)
FloorFrom(t, k, key, best) ==
  CASE t = Nil -> best
    [] t # Nil /\ k = key[t.entry] -> << t.entry >>
    [] t # Nil /\ k < key[t.entry] -> FloorFrom(t.left, k, key, best)
    [] OTHER -> FloorFrom(t.right, k, key, << t.entry >>)

RECURSIVE search_entry(_, _, _)
search_entry(t, k, key) ==
  CASE t = Nil -> Nil
    [] t # Nil /\ k = key[t.entry] -> << t.entry >>
    [] t # Nil /\ k > key[t.entry] -> search_entry(t.right, k, key)
    [] OTHER -> search_entry(t.left, k, key)

\* Mutant: the walk to the right remembers the node it leaves.
CeilKeepsSmaller(t, k, key) == FloorFrom(t, k, key, Nil)
ceil_entry(t, k, key)  == CeilFrom(t, k, key, Nil)
floor_entry(t, k, key) == FloorFrom(t, k, key, Nil)

RECURSIVE first_entry(_)
first_entry(t) == IF t = Nil THEN Nil
                  ELSE IF t.left = Nil THEN << t.entry >> ELSE first_entry(t.left)
RECURSIVE last_entry(_)
last_entry(t)  == IF t = Nil THEN Nil
                  ELSE IF t.right = Nil THEN << t.entry >> ELSE last_entry(t.right)
-----------------------------------------------------------------------------
(* What a tree is *)

RECURSIVE InOrder(_)
InOrder(t) == IF t = Nil THEN << >>
              ELSE InOrder(t.left) \o << t.entry >> \o InOrder(t.right)

RECURSIVE Depth(_)
Depth(t) == IF t = Nil THEN 0 ELSE 1 + GreaterOf(Depth(t.left), Depth(t.right))

RECURSIVE Subtrees(_)
Subtrees(t) == IF t = Nil THEN {}
               ELSE {t} \cup Subtrees(t.left) \cup Subtrees(t.right)

Entries(t) == {s.entry : s \in Subtrees(t)}
=============================================================================
