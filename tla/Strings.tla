------------------------------ MODULE Strings ------------------------------
(***************************************************************************)
(* tc::tstring: a short string lives in the object itself, in the bytes    *)
(* that hold the pointer of a longer one.  Strings are constructed, moved  *)
(* and changed while an allocation of a call may fail.  Every place of the *)
(* buffer is there and the terminator is stored where the code stores it;  *)
(* what is left behind it counts as garbage.  Index 0 of the code is       *)
(* place 1.                                                                *)
(***************************************************************************)
EXTENDS Integers, SequencesExt, FiniteSetsExt

CONSTANTS
  Strings, Allocators,
  Values,               \* the characters but NUL, as numbers
  Space,                \* 0x20: trim() removes what is not above it
  Texts,                \* the C strings clients pass
  INLINE_BUFFER_SIZE,   \* 16 / sizeof(TCHAR)
  Careful,              \* clients keep out of what loses the terminator
  MaxLength             \* bound: the characters of a string

VARIABLES
  strings,   \* live string -> [alloc, cap, size, chars]
  blocks,    \* allocator -> the blocks it has handed out
  ret        \* how the last call ended

vars == << strings, blocks, ret >>
live == DOMAIN strings
-----------------------------------------------------------------------------
NUL     == 0
Garbage == -1        \* a place nothing was stored in
Torn    == << -2 >>  \* a buffer the code ran out of

Smaller(m, n) == IF m < n THEN m ELSE n
Raw(n) == [p \in 1 .. n |-> Garbage]

\* memcpy of t to b + at, and memmove of n characters inside b.
Store(b, at, t) ==
  IF at + Len(t) > Len(b) THEN Torn
  ELSE [p \in DOMAIN b |-> IF p - at \in DOMAIN t THEN t[p - at] ELSE b[p]]
Move(b, from, to, n) ==
  IF from + n > Len(b) THEN Torn ELSE Store(b, to, SubSeq(b, from + 1, from + n))

is_inline(s) == s.cap <= INLINE_BUFFER_SIZE
Text(s) == SubSeq(s.chars, 1, Smaller(s.size, Len(s.chars)))
\* What a reader of c_str() sees: it stops at the terminator.
Shown(s) ==
  LET nul == SelectInSeq(s.chars, LAMBDA c : c = NUL)
  IN IF nul = 0 THEN s.chars ELSE SubSeq(s.chars, 1, nul - 1)

Empty(a) == [alloc |-> a, cap |-> INLINE_BUFFER_SIZE, size |-> 0,
             chars |-> Store(Raw(INLINE_BUFFER_SIZE), 0, << NUL >>)]

\* A step of a call: the string after it and the blocks it took and freed.
Kept(s) == [str |-> s, took |-> 0, freed |-> 0]
OnHeap(s, chars, size) ==
  [str |-> [s EXCEPT !.chars = chars, !.cap = Len(chars), !.size = size],
   took |-> 1, freed |-> IF is_inline(s) THEN 0 ELSE 1]

ensure_cap(s, new_size) ==
  IF new_size + 1 <= INLINE_BUFFER_SIZE THEN Kept(s)
  ELSE OnHeap(s, Store(Raw(new_size + 1), 0, SubSeq(s.chars, 1, s.size + 1)), s.size)

\* Back in the object the characters stand where the pointer stood.
reserve1(s, sz) ==
  IF sz >= INLINE_BUFFER_SIZE
  THEN LET len == Smaller(s.size, sz)
       IN OnHeap(s, Store(Raw(sz + 1), 0, SubSeq(s.chars, 1, len) \o << NUL >>), len)
  ELSE LET inside == Store(Raw(INLINE_BUFFER_SIZE), 0,
                           SubSeq(s.chars, 1, Smaller(INLINE_BUFFER_SIZE, s.size)))
           chars  == IF is_inline(s) THEN s.chars ELSE inside
       IN [str |-> [s EXCEPT !.cap = INLINE_BUFFER_SIZE, !.size = Smaller(@, sz),
                             !.chars = Store(chars, sz, << NUL >>)],
           took |-> 0, freed |-> IF is_inline(s) THEN 0 ELSE 1]
Roomy(s, newlen) == IF newlen >= s.cap THEN reserve1(s, newlen) ELSE Kept(s)

Sized(s, size) == [s EXCEPT !.size = size, !.chars = Store(@, size, << NUL >>)]

\* unsafe_append and unsafe_remove: t goes in at idx, and a part goes out.
Inserted(s, idx, t) ==
  Sized([s EXCEPT !.chars = Store(Move(@, idx, idx + Len(t), s.size - idx), idx, t)], s.size + Len(t))
Without(s, start, end) ==
  Sized([s EXCEPT !.chars = Move(@, end, start, s.size - end)], s.size - (end - start))

\* Mutant: append sees no need for the terminator's place.
AppendToTheBrim(s, idx, t) ==
  LET r == IF s.cap - s.size < Len(t) THEN ensure_cap(s, s.size + Len(t)) ELSE Kept(s)
  IN [r EXCEPT !.str = Inserted(@, idx, t)]
append1(s, idx, t) ==
  LET r == IF s.cap - s.size <= Len(t) THEN ensure_cap(s, s.size + Len(t)) ELSE Kept(s)
  IN [r EXCEPT !.str = Inserted(@, idx, t)]

\* len - matcher_len wraps once the rest is shorter than the matcher.
RECURSIVE replace_from(_, _, _, _)
replace_from(s, i, m, t) ==
  IF s.size < Len(m) THEN [s EXCEPT !.chars = Torn]
  ELSE IF i > s.size - Len(m) THEN s
  ELSE IF SubSeq(s.chars, i + 1, i + Len(m)) = m
       THEN replace_from(Inserted(Without(s, i, i + Len(m)), i, t), i + Len(t), m, t)
       ELSE replace_from(s, i + 1, m, t)
RECURSIVE count_match(_, _)
count_match(u, m) ==
  IF Len(u) < Len(m) THEN 0
  ELSE IF IsPrefix(m, u) THEN 1 + count_match(SubSeq(u, Len(m) + 1, Len(u)), m)
  ELSE count_match(Tail(u), m)
Replaced_len(s, m, t) == s.size + count_match(Text(s), m) * (Len(t) - Len(m))
\* Mutant: the search goes on inside what it has just put in.
ReplaceAgain(s, m, t) ==
  LET r == Roomy(s, Replaced_len(s, m, t))
  IN IF Len(m) > s.size THEN r
     ELSE [r EXCEPT !.str = replace_from(replace_from(@, 0, m, t), 0, m, t)]
replace_all1(s, m, t) ==
  LET r == Roomy(s, Replaced_len(s, m, t))
  IN IF Len(m) > s.size THEN r ELSE [r EXCEPT !.str = replace_from(@, 0, m, t)]

replace1(s, start, end, t) ==
  LET r == Roomy(s, s.size - (end - start) + Len(t))
  IN [r EXCEPT !.str = Inserted(Without(@, start, end), start, t)]

trim1(s) ==
  LET kept  == {p \in 1 .. s.size : s.chars[p] > Space}
      start == IF kept = {} THEN s.size ELSE Min(kept) - 1
      len   == IF kept = {} THEN 0 ELSE Max(kept) - start
  IN Sized([s EXCEPT !.chars = IF len = 0 THEN @ ELSE Move(@, start, 0, len)], len)

set_length1(s, n, ch) ==
  LET r == Roomy(s, n)
      fill == [p \in 1 .. n - s.size |-> ch]
  IN [r EXCEPT !.str = Sized(IF n > s.size THEN [@ EXCEPT !.chars = Store(@, s.size, fill)] ELSE @, n)]

copy1(d, s) ==
  LET text == SubSeq(s.chars, 1, s.size + 1)
      bytes == IF is_inline(d) THEN d.chars ELSE Raw(INLINE_BUFFER_SIZE)
  IN IF s.size >= INLINE_BUFFER_SIZE THEN OnHeap(d, text, s.size)
     ELSE [str |-> [d EXCEPT !.cap = INLINE_BUFFER_SIZE, !.size = s.size, !.chars = Store(bytes, 0, text)],
           took |-> 0, freed |-> IF is_inline(d) THEN 0 ELSE 1]
\* What a move takes from s, and what it leaves.
Taken(s) ==
  IF is_inline(s)
  THEN [s EXCEPT !.chars = Store(Raw(INLINE_BUFFER_SIZE), 0, SubSeq(@, 1, s.size + 1))]
  ELSE s
Emptied(s) == IF is_inline(s) THEN Sized(s, 0) ELSE Empty(s.alloc)

\* Lookups answer with an index, -1 for npos().
Matches(s, t) == {k \in 0 .. s.size - Len(t) : SubSeq(s.chars, k + 1, k + Len(t)) = t}
index_of(s, t, from) ==
  LET found == {k \in Matches(s, t) : k >= from}
  IN IF found = {} THEN -1 ELSE Min(found)
last_index_of(s, t) == IF Matches(s, t) = {} THEN -1 ELSE Max(Matches(s, t))
starts_with(s, offset, t) == offset < s.size /\ offset \in Matches(s, t)
ends_with(s, t) == s.size - Len(t) \in Matches(s, t)
compare_to(s, r) ==
  LET differ == {p \in 1 .. Smaller(s.size, r.size) : s.chars[p] # r.chars[p]}
      first == Min(differ)
      less(m, n) == IF m < n THEN -1 ELSE IF m > n THEN 1 ELSE 0
  IN IF differ = {} THEN less(s.size, r.size) ELSE less(s.chars[first], r.chars[first])
-----------------------------------------------------------------------------
Settled(s) == [s EXCEPT !.chars = [p \in DOMAIN @ |-> IF p > s.size + 1 THEN Garbage ELSE @[p]]]
Put(f, i, s) == [j \in DOMAIN f \cup {i} |-> IF j = i THEN Settled(s) ELSE f[j]]
Account(a, took, freed) == blocks' = [blocks EXCEPT ![a] = @ + took - freed]

\* A call on string i; one that allocates may find no memory, and has then
\* changed nothing.
Call(i, r) ==
  /\ r.str.size <= MaxLength
  /\ \/ /\ strings' = Put(strings, i, r.str)
        /\ Account(r.str.alloc, r.took, r.freed)
        /\ ret' = << "done" >>
     \/ r.took > 0 /\ ret' = << "threw" >> /\ UNCHANGED << strings, blocks >>
Answer(x) == ret' = x /\ UNCHANGED << strings, blocks >>

Init == strings = << >> /\ blocks = [a \in Allocators |-> 0] /\ ret = << "done" >>

construct(i, a, t) == i \notin live /\ Call(i, append1(Empty(a), 0, t))
\* The copy of a text is taken from c_str().
copy_construct(i, j) == i \notin live /\ Call(i, append1(Empty(strings[j].alloc), 0, Shown(strings[j])))
move_construct(i, j) ==
  /\ i \notin live
  /\ strings' = Put(Put(strings, i, Taken(strings[j])), j, Emptied(strings[j]))
  /\ ret' = << "done" >> /\ UNCHANGED blocks
sub_string(i, j, start, end, a) ==
  LET r == IF end - start >= INLINE_BUFFER_SIZE
           THEN reserve1(Empty(a), end - start) ELSE Kept(Empty(a))
  IN /\ i \notin live
     /\ Call(i, [r EXCEPT !.str = Taken(Inserted(@, 0, SubSeq(strings[j].chars, start + 1, end)))])

copy_assign(i, j) == i \in live /\ Call(i, copy1(strings[i], strings[j]))
move_assign(i, j) ==
  LET d == strings[i]
      s == strings[j]
      short == [copy1(d, s).str EXCEPT !.cap = s.cap]
  IN /\ i \in live
     /\ \/ /\ d.alloc = s.alloc
           /\ strings' = Put(Put(strings, i, IF is_inline(s) THEN short ELSE s), j, Emptied(s))
           /\ Account(d.alloc, 0, IF is_inline(d) THEN 0 ELSE 1)
           /\ ret' = << "done" >>
        \/ d.alloc # s.alloc /\ copy_assign(i, j)

destroy(i) ==
  /\ strings' = [j \in live \ {i} |-> strings[j]]
  /\ Account(strings[i].alloc, 0, IF is_inline(strings[i]) THEN 0 ELSE 1)
  /\ ret' = << "done" >>

clear(i) == Call(i, Kept(Sized(strings[i], 0)))
append(i, idx, t) == Call(i, append1(strings[i], idx, t))
remove(i, start, end) == Call(i, Kept(Without(strings[i], start, end)))
replace(i, start, end, t) == Call(i, replace1(strings[i], start, end, t))
replace_all(i, m, t) ==
  /\ m # << >>
  /\ \/ ~Careful \/ strings[i].size < Len(m)
     \/ Replaced_len(strings[i], m, t) >= Len(m)
  /\ Call(i, replace_all1(strings[i], m, t))
trim(i) == Call(i, Kept(trim1(strings[i])))
set_length(i, n, ch) == Call(i, set_length1(strings[i], n, ch))
reserve(i, n) ==
  /\ \/ ~Careful \/ n >= INLINE_BUFFER_SIZE
     \/ n <= strings[i].size \/ is_inline(strings[i])
  /\ Call(i, reserve1(strings[i], n))

find(i, t, from) ==
  LET s == strings[i]
  IN /\ t # << >> /\ from < s.size
     /\ Answer(<< "found", index_of(s, t, from), last_index_of(s, t), starts_with(s, from, t), ends_with(s, t) >>)
compare(i, j) == Answer(<< "compared", compare_to(strings[i], strings[j]) >>)

Sources(i, j) ==
  \/ copy_construct(i, j) \/ move_construct(i, j)
  \/ copy_assign(i, j) \/ move_assign(i, j)
  \/ i \in live /\ compare(i, j)
  \/ \E end \in 0 .. strings[j].size, a \in Allocators :
       \E start \in 0 .. end : sub_string(i, j, start, end, a)

Changes(i) ==
  \/ clear(i) \/ trim(i) \/ destroy(i)
  \/ \E n \in 0 .. MaxLength : reserve(i, n) \/ \E ch \in Values : set_length(i, n, ch)
  \/ \E idx \in 0 .. strings[i].size, t \in Texts :
       \/ append(i, idx, t) \/ find(i, t, idx)
       \/ \E m \in Texts : replace_all(i, m, t)
       \/ \E end \in idx + 1 .. strings[i].size : replace(i, idx, end, t)
  \/ \E end \in 0 .. strings[i].size : \E start \in 0 .. end : remove(i, start, end)

Next ==
  \E i \in Strings :
    \/ \E a \in Allocators, t \in Texts : construct(i, a, t)
    \/ \E j \in live \ {i} : Sources(i, j)
    \/ i \in live /\ Changes(i)

Spec == Init /\ [][Next]_vars
-----------------------------------------------------------------------------
(* What the properties of the run are stated with. *)

Whole(s) ==
  /\ Len(s.chars) = s.cap /\ s.size < s.cap
  /\ \A p \in 1 .. s.size : s.chars[p] \in Values
  /\ s.chars[s.size + 1] = NUL
Owed(a) == Cardinality({i \in live : strings[i].alloc = a /\ ~is_inline(strings[i])})
=============================================================================
