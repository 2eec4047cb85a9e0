---------------------------- MODULE ListContract ----------------------------
(***************************************************************************)
(* What tc::array_list and tc::linked_list promise their client (the       *)
(* comments of array_list.hpp and linked_list.hpp): each live list is a    *)
(* sequence of values, whatever holds it and whichever allocation or       *)
(* element copy fails.  Indices count from 0, as in the code.              *)
(***************************************************************************)
EXTENDS Naturals, SequencesExt

CONSTANTS
  Lists, Values,
  Initial     \* the contents lists are constructed with

VARIABLES
  contents,   \* live list -> sequence of values
  ret         \* how the last call ended: "yes", "no", "done" or "threw"

live == DOMAIN contents
Set(i, s) == contents' = [j \in live \cup {i} |-> IF j = i THEN s ELSE contents[j]]

Init == contents = << >> /\ ret = "done"

\* A call that throws leaves every list as it was.
Threw == ret' = "threw" /\ UNCHANGED contents

Construct(i) == i \notin live /\ ret' = "done" /\ \E s \in Initial : Set(i, s)
CopyConstruct(i, j) == i \notin live /\ ret' = "done" /\ Set(i, contents[j])
Destroy(i) == ret' = "done" /\ contents' = [j \in live \ {i} |-> contents[j]]

\* The source of a move is valid but unspecified: it may hold anything either
\* list held.
MoveConstruct(i, j) ==
  /\ i \notin live
  /\ ret' = "done"
  /\ contents' = [x \in live \cup {i} |-> IF x = i THEN contents[j]
                                          ELSE IF x = j THEN << >> ELSE contents[x]]
CopyAssign(i, j) == ret' = "done" /\ Set(i, contents[j])
MoveAssign(i, j) ==
  /\ ret' = "done"
  /\ \E left \in {<< >>, contents[i], contents[j]} :
       contents' = [contents EXCEPT ![i] = contents[j], ![j] = left]

\* list.add(idx, v), and add(v), push, add_last, add_first at their ends.
Add(i, idx, v) == ret' = "done" /\ Set(i, InsertAt(contents[i], idx + 1, v))
Replace(i, idx, v) == ret' = "yes" /\ Set(i, [contents[i] EXCEPT ![idx + 1] = v])
Delete(i, idx) == ret' \in {"yes", "done"} /\ Set(i, RemoveAt(contents[i], idx + 1))

\* fast_remove_at: the last element takes the place of the one removed.
DeleteFast(i, idx) ==
  LET s == contents[i]
  IN ret' = "yes" /\ Set(i, Front([s EXCEPT ![idx + 1] = Last(s)]))

\* remove(v): the first element equal to v, if there is one.
RemoveValue(i, v) ==
  /\ ret' = IF Contains(contents[i], v) THEN "yes" ELSE "no"
  /\ Set(i, RemoveFirst(contents[i], v))
Clear(i) == ret' = "done" /\ Set(i, << >>)

\* reserve and trim_to_size.
Refit == ret' = "done" /\ UNCHANGED contents

Next ==
  \/ Threw \/ Refit
  \/ \E i \in Lists : Construct(i)
  \/ \E i \in Lists, j \in live : CopyConstruct(i, j) \/ MoveConstruct(i, j)
  \/ \E i, j \in live : i # j /\ (CopyAssign(i, j) \/ MoveAssign(i, j))
  \/ \E i \in live :
       \/ Clear(i) \/ Destroy(i)
       \/ \E v \in Values :
            \/ RemoveValue(i, v)
            \/ \E idx \in 0 .. Len(contents[i]) : Add(i, idx, v)
            \/ \E idx \in 0 .. Len(contents[i]) - 1 : Replace(i, idx, v)
       \/ \E idx \in 0 .. Len(contents[i]) - 1 : Delete(i, idx) \/ DeleteFast(i, idx)

Spec == Init /\ [][Next]_<< contents, ret >>
=============================================================================
