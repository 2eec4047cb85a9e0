----------------------------- MODULE LinkedList -----------------------------
(***************************************************************************)
(* tc::linked_list over its nodes: several lists, each with its allocator, *)
(* are constructed, copied, moved, changed and destroyed while any node of *)
(* a call may be refused.  The nodes of a list are named by numbers; a new *)
(* node (its block and the copy of the element, given back together when   *)
(* the copy throws) is one step that may fail.                             *)
(***************************************************************************)
EXTENDS Chains

CONSTANTS
  Lists, Allocators, Values,
  Initial,     \* the initializer lists clients pass
  Middles,     \* do clients add or remove by an index in the middle?
  MaxSize,     \* bound: the elements of a list
  MaxQuota     \* bound: the nodes of a call that are not refused

LinkedListAssumption ==
  /\ MaxSize \in Nat /\ MaxQuota \in Nat /\ Middles \in BOOLEAN
  /\ Initial \subseteq Seq(Values)

VARIABLES
  lists,   \* live list -> [alloc, nodes, head, tail, size]
  out,     \* allocator -> the nodes it has handed out
  ret      \* how the last call ended

vars == << lists, out, ret >>
live == DOMAIN lists
-----------------------------------------------------------------------------
(* A list and its nodes *)

Empty(a) == [alloc |-> a, nodes |-> << >>, head |-> Nil, tail |-> Nil, size |-> 0]
Nodes(l) == Cardinality(DOMAIN l.nodes)

\* From the head when idx is in the first half, else from the tail.
node_at(l, idx) ==
  LET first == idx < l.size \div 2
      w == IF first THEN Forward(l) ELSE Backward(l)
      k == IF first THEN idx + 1 ELSE l.size - idx
  IN IF k \in DOMAIN w THEN w[k] ELSE Nil

With(f, i, x) == [y \in DOMAIN f \cup {i} |-> IF y = i THEN x ELSE f[y]]
Without(f, i) == [y \in DOMAIN f \ {i} |-> f[y]]

Fresh(l) == Min((1 .. Nodes(l) + 1) \ DOMAIN l.nodes)
new_node(l, v) ==
  [l EXCEPT !.nodes = With(@, Fresh(l), [prev |-> Nil, next |-> Nil, value |-> v])]

AddedLast(l, v)  == [LinkLast(new_node(l, v), Fresh(l)) EXCEPT !.size = @ + 1]
AddedFirst(l, v) == [LinkFirst(new_node(l, v), Fresh(l)) EXCEPT !.size = @ + 1]

\* Before the node cur; the size is not counted up.
AddedBefore(l, cur, v) ==
  LET n == Fresh(l)
      prev == l.nodes[cur].prev
  IN [new_node(l, v) EXCEPT !.nodes[n].prev = prev, !.nodes[n].next = cur,
                            !.nodes[cur].prev = n, !.nodes[prev].next = n]

\* The node is unlinked and deleted.
unlink(l, n) == [Unlink(l, n) EXCEPT !.nodes = Without(@, n), !.size = @ - 1]
-----------------------------------------------------------------------------
(* The state of a call: the list, how many new nodes are still to come     *)
(* before one is refused, and whether an exception is on its way.          *)

Call(l, quota) == [list |-> l, quota |-> quota, ok |-> TRUE]
Throw(c) == [c EXCEPT !.ok = FALSE]
add1(c, l) == IF c.quota = 0 THEN Throw(c) ELSE [c EXCEPT !.quota = @ - 1, !.list = l]
AddAll(c, s) == FoldLeft(LAMBDA d, v : IF d.ok THEN add1(d, AddedLast(d.list, v)) ELSE d, c, s)

Contents(l) == LET w == Forward(l) IN [k \in DOMAIN w |-> l.nodes[w[k]].value]

\* clear deletes what a walk back from the tail meets.
Cleared(l) == Len(Backward(l))

Ends(c, r) == c.quota = 0 /\ ret' = IF c.ok THEN r ELSE "threw"
Account(a, n) == out' = [out EXCEPT ![a] = @ + n]

\* A call that changes list i alone.
Commit(i, c, r) ==
  /\ Ends(c, r)
  /\ lists' = With(lists, i, c.list)
  /\ Account(c.list.alloc, Nodes(c.list) - (IF i \in live THEN Nodes(lists[i]) ELSE 0))

\* A constructor clears the list it was building; no one meets it.
Undone(c) ==
  /\ Ends(c, "done")
  /\ Account(c.list.alloc, Nodes(c.list) - Cleared(c.list))
  /\ UNCHANGED lists

Init == lists = << >> /\ out = [a \in Allocators |-> 0] /\ ret = "done"

construct(i, a, s, quota) ==
  LET c == AddAll(Call(Empty(a), quota), s)
  IN i \notin live /\ IF c.ok THEN Commit(i, c, "done") ELSE Undone(c)
copy_construct(i, j, quota) == construct(i, lists[j].alloc, Contents(lists[j]), quota)
move_construct(i, j) ==
  /\ i \notin live
  /\ lists' = With(With(lists, i, lists[j]), j, Empty(lists[j].alloc))
  /\ ret' = "done" /\ UNCHANGED out

\* A second chain is made before the first is cleared; it is taken apart from
\* its tail when a node is refused.
\* Mutant: the list is cleared first.
CopyAssignClearsFirst(i, j, quota) ==
  LET c == AddAll(Call(Empty(lists[i].alloc), quota), Contents(lists[j]))
  IN /\ Ends(c, "done")
     /\ lists' = [lists EXCEPT ![i] = IF c.ok THEN c.list ELSE Empty(@.alloc)]
     /\ Account(lists[i].alloc, (IF c.ok THEN Nodes(c.list) ELSE 0) - Cleared(lists[i]))
copy_assign(i, j, quota) ==
  LET c == AddAll(Call(Empty(lists[i].alloc), quota), Contents(lists[j]))
  IN IF ~c.ok THEN Undone(c)
     ELSE /\ Ends(c, "done")
          /\ lists' = [lists EXCEPT ![i] = [c.list EXCEPT !.size = lists[j].size]]
          /\ Account(lists[i].alloc, Nodes(c.list) - Cleared(lists[i]))

\* Equal allocators: the chains are swapped.  Otherwise *this = list copies.
move_assign(i, j) ==
  /\ lists[i].alloc = lists[j].alloc
  /\ lists' = With(With(lists, i, lists[j]), j, lists[i])
  /\ ret' = "done" /\ UNCHANGED out
move_assign_copies(i, j, quota) == lists[i].alloc # lists[j].alloc /\ copy_assign(i, j, quota)

\* add and push are add_last.
add_last(i, v, quota) ==
  Commit(i, add1(Call(lists[i], quota), AddedLast(lists[i], v)), "done")
add_first(i, v, quota) ==
  Commit(i, add1(Call(lists[i], quota), AddedFirst(lists[i], v)), "done")
add_at(i, idx, v, quota) ==
  LET l == lists[i]
      at == node_at(l, idx)
  IN IF idx = l.size THEN add_last(i, v, quota)
     ELSE IF idx = 0 THEN add_first(i, v, quota)
     ELSE /\ Middles /\ at # Nil
          /\ Commit(i, add1(Call(l, quota), AddedBefore(l, at, v)), "done")

Deleted(i, l, r) ==
  /\ lists' = [lists EXCEPT ![i] = l]
  /\ ret' = r
  /\ Account(l.alloc, Nodes(l) - Nodes(lists[i]))
\* The ends are unlinked like any other node; pop is remove_last.
remove_first(i) == lists[i].size > 0 /\ Deleted(i, unlink(lists[i], lists[i].head), "done")
remove_last(i)  == lists[i].size > 0 /\ Deleted(i, unlink(lists[i], lists[i].tail), "done")

\* In the middle the size is counted down by unlink and once more.
remove_at(i, idx) ==
  LET l == lists[i]
      at == node_at(l, idx)
  IN IF idx = 0 THEN remove_first(i)
     ELSE IF idx = l.size - 1 THEN remove_last(i)
     ELSE /\ Middles /\ at # Nil
          /\ Deleted(i, [unlink(l, at) EXCEPT !.size = @ - 1], "done")

\* The first node with that value.  It does not test the size: after miscounts
\* that left 0 for nodes that are there, _size would wrap, and no client goes on.
remove(i, v) ==
  LET l == lists[i]
      at == SelectInSeq(Contents(l), LAMBDA x : x = v)
  IN IF at = 0 THEN ret' = "no" /\ UNCHANGED << lists, out >>
     ELSE l.size > 0 /\ Deleted(i, unlink(l, Forward(l)[at]), "yes")

\* list.at(idx) = v
set_at(i, idx, v) ==
  /\ node_at(lists[i], idx) # Nil
  /\ lists' = [lists EXCEPT ![i].nodes[node_at(lists[i], idx)].value = v]
  /\ ret' = "yes" /\ UNCHANGED out

clear(i) ==
  /\ lists' = [lists EXCEPT ![i] = Empty(@.alloc)]
  /\ ret' = "done" /\ Account(lists[i].alloc, - Cleared(lists[i]))
destroy(i) ==
  /\ lists' = Without(lists, i)
  /\ ret' = "done" /\ Account(lists[i].alloc, - Cleared(lists[i]))

Allocating(i, quota) ==
  \/ \E j \in live \ {i} : copy_assign(i, j, quota) \/ move_assign_copies(i, j, quota)
  \/ /\ Nodes(lists[i]) < MaxSize
     /\ \E v \in Values : \/ add_last(i, v, quota) \/ add_first(i, v, quota)
                          \/ \E idx \in 0 .. lists[i].size : add_at(i, idx, v, quota)

Next ==
  \E i \in Lists :
    \/ \E quota \in 0 .. MaxQuota :
         \/ \E a \in Allocators, s \in Initial : construct(i, a, s, quota)
         \/ \E j \in live \ {i} : copy_construct(i, j, quota)
         \/ i \in live /\ Allocating(i, quota)
    \/ \E j \in live \ {i} : move_construct(i, j) \/ (i \in live /\ move_assign(i, j))
    \/ /\ i \in live
       /\ \/ clear(i) \/ destroy(i) \/ remove_first(i) \/ remove_last(i)
          \/ \E v \in Values : remove(i, v)
          \/ \E idx \in 0 .. lists[i].size - 1 :
               remove_at(i, idx) \/ \E v \in Values : set_at(i, idx, v)

Spec == Init /\ [][Next]_vars
-----------------------------------------------------------------------------
(* What the properties of the run are stated with. *)

\* The chain is sound, the size is the number of its nodes and an index finds
\* its node from whichever end is nearer.
Linked(l) ==
  /\ WellLinked(l) /\ l.size = Nodes(l)
  /\ \A idx \in 0 .. l.size - 1 : node_at(l, idx) = Forward(l)[idx + 1]

\* The nodes of allocator a that the lists of f hold, each named with its list.
Owned(f, a) == UNION {{i} \X DOMAIN f[i].nodes : i \in {j \in DOMAIN f : f[j].alloc = a}}
Owed(a) == Cardinality(Owned(lists, a))

\* The two directions of a chain, its size and its indices agree after every
\* call (linked_list.hpp:1115-1140 walks from the nearer end), and each
\* allocator is owed the nodes of live lists.
LinksAgree ==
  /\ \A i \in live : Linked(lists[i])
  /\ \A a \in Allocators : out[a] = Owed(a)
=============================================================================
