---------------------------- MODULE TextContract ----------------------------
(***************************************************************************)
(* What the comments of string.hpp promise of tc::tstring: each live       *)
(* string is a sequence of characters, wherever it lives and whichever     *)
(* allocation fails.  Indices count from 0 and end is exclusive.           *)
(***************************************************************************)
EXTENDS Integers, SequencesExt

CONSTANTS Strings, Values, Space, Texts, MaxLength

VARIABLES
  contents,   \* live string -> its characters
  ret         \* how the last call ended, or what it answered

live == DOMAIN contents
Done(i, u) == contents'[i] = u
\* A call that comes to its end and changes no string but i.
Only(i) ==
  /\ ret' = << "done" >>
  /\ DOMAIN contents' = live \cup {i}
  /\ \A j \in live \ {i} : contents'[j] = contents[j]

Before(u, k) == SubSeq(u, 1, k)
From(u, k) == SubSeq(u, k + 1, Len(u))
Cut(u, start, end) == SubSeq(u, start + 1, end)

Init == contents = << >> /\ ret = << "done" >>

\* "If the function throws an exception, the string will remain unchanged."
Threw == ret' = << "threw" >> /\ UNCHANGED contents

Construct(i, t) == i \notin live /\ Done(i, t)
Copy(i, j) == Done(i, contents[j])
SubString(i, j, start, end) == i \notin live /\ Done(i, Cut(contents[j], start, end))
\* The source of a move is valid but unspecified.
Take(i, j) ==
  /\ ret' = << "done" >>
  /\ DOMAIN contents' = live \cup {i}
  /\ contents'[i] = contents[j] /\ contents'[j] \in {<< >>, contents[j]}
  /\ \A x \in live \ {i, j} : contents'[x] = contents[x]
Destroy(i) == ret' = << "done" >> /\ contents' = [j \in live \ {i} |-> contents[j]]

Insert(i, idx, t) == Done(i, Before(contents[i], idx) \o t \o From(contents[i], idx))
Replace(i, start, end, t) ==
  Done(i, Before(contents[i], start) \o t \o From(contents[i], end))

\* Each match, from left to right, that does not overlap the one before it.
RECURSIVE EachReplaced(_, _, _)
EachReplaced(u, m, t) ==
  IF u = << >> THEN << >>
  ELSE IF IsPrefix(m, u) THEN t \o EachReplaced(From(u, Len(m)), m, t)
  ELSE << Head(u) >> \o EachReplaced(Tail(u), m, t)
ReplaceEach(i, m, t) == m # << >> /\ Done(i, EachReplaced(contents[i], m, t))

\* The part without the characters up to Space at either end.
Trimmed(u, v) ==
  /\ \E a, b \in 0 .. Len(u) :
       /\ a <= b /\ v = Cut(u, a, b)
       /\ \A p \in 1 .. a : u[p] <= Space
       /\ \A p \in b + 1 .. Len(u) : u[p] <= Space
  /\ v # << >> => Head(v) > Space /\ Last(v) > Space
Trim(i) == Trimmed(contents[i], contents'[i])

SetLength(i, n, ch) ==
  LET u == contents[i]
  IN Done(i, [p \in 1 .. n |-> IF p <= Len(u) THEN u[p] ELSE ch])
\* reserve: room for n characters, of which there are no more than before.
Reserve(i, n) == Done(i, Before(contents[i], IF n < Len(contents[i]) THEN n ELSE Len(contents[i])))

\* k is where t begins in u.
Occurs(u, t, k) == IsPrefix(t, From(u, k))
Find(i, t, from) ==
  LET u == contents[i]
      Earliest(k) == Occurs(u, t, k) /\ k >= from /\ \A n \in from .. k - 1 : ~Occurs(u, t, n)
      Latest(k) == Occurs(u, t, k) /\ \A n \in k + 1 .. Len(u) : ~Occurs(u, t, n)
      One(P(_)) == IF \E k \in 0 .. Len(u) : P(k) THEN CHOOSE k \in 0 .. Len(u) : P(k) ELSE -1
  IN /\ ret'[1] = "found" /\ UNCHANGED contents
     /\ Tail(ret') = << One(Earliest), One(Latest), Occurs(u, t, from), IsSuffix(t, u) >>

\* The order of dictionaries.
Less(u, v) ==
  \E n \in 0 .. Len(u) :
    /\ n <= Len(v) /\ Before(u, n) = Before(v, n)
    /\ \/ n = Len(u) /\ n < Len(v)
       \/ n < Len(u) /\ n < Len(v) /\ u[n + 1] < v[n + 1]
Compare(i, j) ==
  LET u == contents[i]  v == contents[j]
  IN /\ ret'[1] = "compared" /\ UNCHANGED contents
     /\ ret'[2] = IF Less(u, v) THEN -1 ELSE IF Less(v, u) THEN 1 ELSE 0

Changes(i) ==
  LET n == Len(contents[i])
  IN \/ Trim(i)
     \/ \E ch \in Values, k \in 0 .. MaxLength : SetLength(i, k, ch)
     \/ \E k \in 0 .. n : Reserve(i, k)
     \/ \E k \in 0 .. n, t \in Texts : Insert(i, k, t)
     \/ \E start, end \in 0 .. n, t \in Texts \cup {<< >>} : start <= end /\ Replace(i, start, end, t)
     \/ \E m, t \in Texts : ReplaceEach(i, m, t)

Next ==
  \/ Threw
  \/ \E i \in live :
       \/ Destroy(i)
       \/ \E t \in Texts, from \in 0 .. Len(contents[i]) : Find(i, t, from)
       \/ \E j \in live \ {i} : Compare(i, j)
  \/ \E i \in Strings, j \in live : i # j /\ Take(i, j)
  \/ \E i \in Strings :
       /\ Only(i)
       /\ \/ \E t \in Texts : Construct(i, t)
          \/ i \in live /\ Changes(i)
          \/ \E j \in live \ {i} :
               \/ Copy(i, j)
               \/ \E start, end \in 0 .. Len(contents[j]) : start <= end /\ SubString(i, j, start, end)

Spec == Init /\ [][Next]_<< contents, ret >>
=============================================================================
