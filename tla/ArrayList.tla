----------------------------- MODULE ArrayList -----------------------------
(***************************************************************************)
(* tc::array_list over its buffer: several lists, each with its allocator, *)
(* are constructed, copied, moved, changed and destroyed while any         *)
(* allocation or element copy of a call may fail.  A buffer is a sequence  *)
(* of slots, each raw memory, an element or what a moved element leaves    *)
(* behind; moving an element does not fail.  Index 0 of the code is slot 1.*)
(***************************************************************************)
EXTENDS Integers, SequencesExt, FiniteSetsExt

CONSTANTS
  Lists, Allocators, Values,
  Initial,            \* the initializer lists clients pass
  Capacities,         \* the capacities they construct with or reserve
  DEFAULT_CAPACITY,   \* 10 in the code
  AddToFullOfOne,     \* do they add to a full list of capacity 1?
  MaxSize,            \* bound: the elements of a list
  MaxQuota            \* bound: the allocations and copies of a call that succeed

\* What a slot holds besides a value.
Raw   == "raw"
Moved == "moved"

ASSUME ArrayListAssumption ==
  /\ IsFiniteSet(Lists) /\ Values \cap {Raw, Moved} = {}
  /\ MaxSize \in Nat /\ MaxQuota \in Nat /\ DEFAULT_CAPACITY \in Nat \ {0}
  /\ Capacities \subseteq Nat /\ AddToFullOfOne \in BOOLEAN
  /\ Initial \subseteq Seq(Values)

VARIABLES
  lists,   \* live list -> [alloc, data, slots, size]
  out,     \* allocator -> the blocks it has handed out
  ret      \* how the last call ended

vars == << lists, out, ret >>
live == DOMAIN lists
-----------------------------------------------------------------------------
(* A buffer and its elements.  Building over an element, destroying what   *)
(* is not there and leaving the buffer tear it for good.                   *)

Torn  == << "torn" >>
Built == Values \cup {Moved}

NewBuffer(n) == [p \in 1 .. n |-> Raw]
ConstructIn(b, p, v) ==
  IF p \in DOMAIN b /\ b[p] = Raw /\ v \in Built THEN [b EXCEPT ![p] = v] ELSE Torn
Destroy(b, p) == IF p \in DOMAIN b /\ b[p] \in Built THEN [b EXCEPT ![p] = Raw] ELSE Torn

\* new (&m_data[q]) E(std::move(m_data[p])) and m_data[p].~E().
Shift(b, p, q) ==
  IF p \notin DOMAIN b THEN Torn
  ELSE LET c == ConstructIn(b, q, b[p]) IN IF c = Torn THEN Torn ELSE Destroy([c EXCEPT ![p] = Moved], p)

\* The elements in slots ps are shifted one slot down, or one up, in order.
ShiftDown(b, ps) == FoldLeft(LAMBDA c, p : Shift(c, p, p - 1), b, ps)
ShiftUp(b, ps)   == FoldLeft(LAMBDA c, p : Shift(c, p, p + 1), b, ps)
Upwards(lo, hi)   == [n \in 1 .. (hi - lo + 1) |-> lo + n - 1]
Downwards(hi, lo) == [n \in 1 .. (hi - lo + 1) |-> hi - n + 1]

\* destroy_n and deallocate_and_destroy_n, from the last element to the first.
DestroyAll(b, n) == FoldLeft(Destroy, b, Downwards(n, 1))

\* uninitialized_move_n into a new buffer of n slots, the old one destroyed.
MovedInto(b, size, n) ==
  LET fresh == FoldLeft(LAMBDA c, p : ConstructIn(c, p, b[p]), NewBuffer(n), Upwards(1, size))
      left  == [p \in DOMAIN b |-> IF p <= size THEN Moved ELSE b[p]]
  IN IF DestroyAll(left, size) = NewBuffer(Len(b)) THEN fresh ELSE Torn
-----------------------------------------------------------------------------
(* The state of a call: the list, how many of the steps that succeed are   *)
(* still to come, whether an exception is on its way, and the blocks taken *)
(* and given back.  A call that ends well has used its quota up, one that  *)
(* throws asked for more.                                                  *)

Call(l, quota) == [list |-> l, quota |-> quota, ok |-> TRUE, taken |-> 0, given |-> 0]
Throw(c) == [c EXCEPT !.ok = FALSE]
Empty(a) == [alloc |-> a, data |-> FALSE, slots |-> << >>, size |-> 0]

\* A new buffer takes the place of the old one.
Swap(c, b) ==
  [c EXCEPT !.quota = @ - 1, !.taken = @ + 1,
            !.given = IF c.list.data THEN @ + 1 ELSE @,
            !.list.data = TRUE, !.list.slots = b]

reserve1(c, n) ==
  IF n <= Len(c.list.slots) THEN c
  ELSE IF c.quota = 0 THEN Throw(c)
  ELSE Swap(c, MovedInto(c.list.slots, c.list.size, n))

NewCapacity(n) == IF n > 0 THEN n + n \div 2 ELSE DEFAULT_CAPACITY
grow(c) == IF c.list.size >= Len(c.list.slots) THEN reserve1(c, NewCapacity(Len(c.list.slots))) ELSE c

add1(c, v) ==
  LET d == grow(c)
  IN IF ~d.ok \/ d.quota = 0 THEN Throw(d)
     ELSE [d EXCEPT !.quota = @ - 1, !.list.size = @ + 1,
                    !.list.slots = ConstructIn(@, d.list.size + 1, v)]

\* The elements from slot p on move up; they come down again when the copy of
\* v into the hole throws.
\* Mutant: the exception path leaves the hole.
AddLeavesHole(c, p, v) ==
  LET d == grow(c)
      gap == ShiftUp(d.list.slots, Downwards(d.list.size, p))
  IN IF ~d.ok THEN d
     ELSE IF d.quota = 0 THEN Throw([d EXCEPT !.list.slots = gap])
     ELSE [d EXCEPT !.quota = @ - 1, !.list.size = @ + 1, !.list.slots = ConstructIn(gap, p, v)]
add_at1(c, p, v) ==
  LET d == grow(c)
      gap == ShiftUp(d.list.slots, Downwards(d.list.size, p))
  IN IF ~d.ok THEN d
     ELSE IF d.quota = 0
       THEN Throw([d EXCEPT !.list.slots = ShiftDown(gap, Upwards(p + 1, d.list.size + 1))])
     ELSE [d EXCEPT !.quota = @ - 1, !.list.size = @ + 1, !.list.slots = ConstructIn(gap, p, v)]

\* allocate_and_copy_n: the copies made are destroyed when one of them throws.
CopyOf(c, l) ==
  LET s == SubSeq(l.slots, 1, l.size)
  IN IF c.quota < 1 + l.size THEN Throw(c)
     ELSE [c EXCEPT !.quota = @ - 1 - l.size, !.taken = @ + 1, !.list.data = TRUE,
                    !.list.slots = s, !.list.size = l.size]
-----------------------------------------------------------------------------
(* The calls *)

With(f, i, x) == [y \in DOMAIN f \cup {i} |-> IF y = i THEN x ELSE f[y]]
Held(l) == IF l.data THEN 1 ELSE 0
Account(a, taken, given) == out' = [out EXCEPT ![a] = @ + taken - given]
Ends(c, r) == c.quota = 0 /\ ret' = IF c.ok THEN r ELSE "threw"

\* A call that changes list i alone; with an exception it keeps what the call
\* had done to the list.
Commit(i, c, r) ==
  /\ Ends(c, r)
  /\ lists' = With(lists, i, c.list)
  /\ Account(c.list.alloc, c.taken, c.given)
\* A constructor that throws gives back what it took.
Undone(c) == Ends(c, "done") /\ UNCHANGED << lists, out >>

Init == lists = << >> /\ out = [a \in Allocators |-> 0] /\ ret = "done"

construct(i, a, n, quota) ==
  LET c == reserve1(Call(Empty(a), quota), n)
  IN i \notin live /\ IF c.ok THEN Commit(i, c, "done") ELSE Undone(c)

\* The initializer_list constructor; create_filled ends in the same list.
construct_filled(i, a, s, quota) ==
  LET c == FoldLeft(LAMBDA d, v : IF d.ok THEN add1(d, v) ELSE d,
                    reserve1(Call(Empty(a), quota), Len(s)), s)
  IN i \notin live /\ IF c.ok THEN Commit(i, c, "done") ELSE Undone(c)

copy_construct(i, j, quota) ==
  LET e == Call(Empty(lists[j].alloc), quota)
      c == IF lists[j].size = 0 THEN e ELSE CopyOf(e, lists[j])
  IN i \notin live /\ IF c.ok THEN Commit(i, c, "done") ELSE Undone([c EXCEPT !.quota = 0])

move_construct(i, j) ==
  /\ i \notin live
  /\ lists' = With(With(lists, i, lists[j]), j, Empty(lists[j].alloc))
  /\ ret' = "done" /\ UNCHANGED out

\* The copy is made first, then the old elements and their block go.
copy_assign(i, j, quota) ==
  LET c == CopyOf(Call(lists[i], quota), lists[j])
      emptied == DestroyAll(lists[i].slots, lists[i].size)
  IN IF ~c.ok THEN Undone([c EXCEPT !.quota = 0])
     ELSE Commit(i, [c EXCEPT !.given = Held(lists[i]),
                              !.list.slots = IF emptied = Torn THEN Torn ELSE @], "done")

\* Equal allocators: the buffers are swapped.  Otherwise *this = list copies.
move_assign(i, j) ==
  /\ lists[i].alloc = lists[j].alloc
  /\ lists' = With(With(lists, i, lists[j]), j, lists[i])
  /\ ret' = "done" /\ UNCHANGED out
move_assign_copies(i, j, quota) == lists[i].alloc # lists[j].alloc /\ copy_assign(i, j, quota)

\* The buffer of a full list of capacity 1 does not grow.
MayAdd(l) ==
  /\ l.size < MaxSize
  /\ AddToFullOfOne \/ ~(l.size = 1 /\ Len(l.slots) = 1)
add(i, v, quota) == MayAdd(lists[i]) /\ Commit(i, add1(Call(lists[i], quota), v), "done")
add_at(i, idx, v, quota) ==
  /\ MayAdd(lists[i])
  /\ Commit(i, add_at1(Call(lists[i], quota), idx + 1, v), "done")

set(i, idx, v) ==
  /\ lists' = [lists EXCEPT ![i].slots[idx + 1] = v]
  /\ ret' = "yes" /\ UNCHANGED out

remove_at1(l, p) ==
  [l EXCEPT !.slots = ShiftDown(Destroy(@, p), Upwards(p + 1, l.size)), !.size = @ - 1]
remove_at(i, idx) ==
  /\ lists' = [lists EXCEPT ![i] = remove_at1(@, idx + 1)]
  /\ ret' = "yes" /\ UNCHANGED out
fast_remove_at(i, idx) ==
  LET hole == Destroy(lists[i].slots, idx + 1)
      n == lists[i].size
  IN /\ lists' = [lists EXCEPT ![i].slots = IF idx + 1 = n THEN hole ELSE Shift(hole, n, idx + 1),
                               ![i].size = @ - 1]
     /\ ret' = "yes" /\ UNCHANGED out
remove(i, v) ==
  LET found == SelectInSubSeq(lists[i].slots, 1, lists[i].size, LAMBDA x : x = v)
  IN IF found = 0 THEN ret' = "no" /\ UNCHANGED << lists, out >> ELSE remove_at(i, found - 1)

clear(i) ==
  /\ lists' = [lists EXCEPT ![i].slots = DestroyAll(@, lists[i].size), ![i].size = 0]
  /\ ret' = "done" /\ UNCHANGED out
reserve(i, n, quota) == Commit(i, reserve1(Call(lists[i], quota), n), "done")
trim_to_size(i, quota) ==
  LET c == Call(lists[i], quota)
      l == lists[i]
  IN Commit(i, IF Len(l.slots) = l.size THEN c
               ELSE IF quota = 0 THEN Throw(c)
               ELSE Swap(c, MovedInto(l.slots, l.size, l.size)), "done")

destroy(i) ==
  /\ DestroyAll(lists[i].slots, lists[i].size) # Torn
  /\ lists' = [j \in live \ {i} |-> lists[j]]
  /\ Account(lists[i].alloc, 0, Held(lists[i])) /\ ret' = "done"

Indices(i) == 0 .. lists[i].size - 1

Constructing(i, quota) ==
  \/ \E a \in Allocators : \/ \E n \in Capacities : construct(i, a, n, quota)
                          \/ \E s \in Initial : construct_filled(i, a, s, quota)
  \/ \E j \in live \ {i} : copy_construct(i, j, quota)

Allocating(i, quota) ==
  \/ \E j \in live \ {i} : copy_assign(i, j, quota) \/ move_assign_copies(i, j, quota)
  \/ \E v \in Values : \/ add(i, v, quota)
                       \/ \E idx \in 0 .. lists[i].size : add_at(i, idx, v, quota)
  \/ \E n \in Capacities : reserve(i, n, quota)
  \/ trim_to_size(i, quota)

Next ==
  \E i \in Lists :
    \/ \E quota \in 0 .. MaxQuota : Constructing(i, quota) \/ (i \in live /\ Allocating(i, quota))
    \/ \E j \in live \ {i} : move_construct(i, j) \/ (i \in live /\ move_assign(i, j))
    \/ /\ i \in live
       /\ \/ clear(i) \/ destroy(i)
          \/ \E idx \in Indices(i) : \/ remove_at(i, idx) \/ fast_remove_at(i, idx)
                                    \/ \E v \in Values : set(i, idx, v)
          \/ \E v \in Values : remove(i, v)

Spec == Init /\ [][Next]_vars
-----------------------------------------------------------------------------
(* What the properties of the run are stated with. *)

Contents(l) == SubSeq(l.slots, 1, l.size)

\* Exactly the first m_size slots hold elements, none of them moved from.
InPlace(l) ==
  /\ l.size <= Len(l.slots)
  /\ \A p \in DOMAIN l.slots : l.slots[p] \in (IF p <= l.size THEN Values ELSE {Raw})

\* The live lists that hold a block of allocator a.
Owners(f, a) == {i \in DOMAIN f : f[i].alloc = a /\ f[i].data}
Owed(a) == Cardinality(Owners(lists, a))

\* Whichever call fails at whichever step (array_list.hpp:1204-1234 shifts the
\* elements back), a buffer holds whole elements in its first slots and raw
\* memory behind them, and each allocator is owed the buffers of live lists.
ElementsInPlace ==
  /\ \A i \in live : InPlace(lists[i])
  /\ \A a \in Allocators : out[a] = Owed(a)
=============================================================================
