------------------------- MODULE OrderedMapContract -------------------------
(***************************************************************************)
(* What tc::linked_hash_map promises its client (the comments of           *)
(* linked_hash_map.hpp): each live map is a sequence of entries with       *)
(* different keys, eldest first, in the order in which they were added or, *)
(* when the map keeps access order, last looked up.                        *)
(***************************************************************************)
EXTENDS Naturals, SequencesExt

CONSTANTS
  Maps, Keys, Values,
  MaxEntries   \* a client's remove_eldest_entry says yes beyond so many

VARIABLES
  contents,   \* live map -> sequence of [key, val], eldest first
  order,      \* live map -> does it keep access order?
  ret         \* how the last call ended: "yes", "no", "done" or "threw"

live == DOMAIN contents
Entry(k, v) == [key |-> k, val |-> v]
Has(s, k)   == \E p \in DOMAIN s : s[p].key = k
Except(s, k) == SelectSeq(s, LAMBDA e : e.key # k)

\* An entry is added or renewed at the end; the eldest goes when there are too
\* many.
Renew(s, e) ==
  LET t == Append(Except(s, e.key), e)
  IN IF Len(t) > Len(s) /\ Len(t) > MaxEntries THEN Tail(t) ELSE t
Keep(s, e) == IF Has(s, e.key) THEN s ELSE Renew(s, e)
RenewAll(s, t) == FoldLeft(Renew, s, t)
KeepAll(s, t)  == FoldLeft(Keep, s, t)

Set(i, s)  == contents' = [j \in live \cup {i} |-> IF j = i THEN s ELSE contents[j]]
SameOrder  == order' = order
Init == contents = << >> /\ order = << >> /\ ret = "done"

\* A call that throws leaves every map as it was.
Threw == ret' = "threw" /\ UNCHANGED << contents, order >>

\* Only put_all and insert_all may throw with a part of their work done.
ThrewPartWay(i, t) ==
  /\ ret' = "threw" /\ SameOrder
  /\ \E n \in 0 .. Len(t) - 1 : \/ Set(i, RenewAll(contents[i], SubSeq(t, 1, n)))
                                \/ Set(i, KeepAll(contents[i], SubSeq(t, 1, n)))

Construct(i) ==
  /\ ret' = "done" /\ i \notin live /\ Set(i, << >>)
  /\ \E o \in BOOLEAN : order' = [j \in live \cup {i} |-> IF j = i THEN o ELSE order[j]]

\* The entries and their order are copied; whether the copy keeps access
\* order is left open.
CopyConstruct(i, j) ==
  /\ ret' = "done" /\ i \notin live /\ Set(i, contents[j])
  /\ \E o \in BOOLEAN : order' = [x \in live \cup {i} |-> IF x = i THEN o ELSE order[x]]
Destroy(i) ==
  /\ ret' = "done"
  /\ contents' = [j \in live \ {i} |-> contents[j]] /\ order' = [j \in live \ {i} |-> order[j]]

\* The source of a move is valid but unspecified: it may hold anything either
\* map held.
Move(i, j) ==
  /\ ret' = "done" /\ i # j
  /\ \E left \in {<< >>, contents[j], IF i \in live THEN contents[i] ELSE << >>} :
       contents' = [x \in live \cup {i} |-> IF x = i THEN contents[j]
                                            ELSE IF x = j THEN left ELSE contents[x]]
  /\ \E o, p \in BOOLEAN : order' = [x \in live \cup {i} |-> IF x = i THEN o ELSE IF x = j THEN p ELSE order[x]]
CopyAssign(i, j) == ret' = "done" /\ SameOrder /\ Set(i, contents[j])

Put(i, k, v)    == ret' = "yes" /\ SameOrder /\ Set(i, Renew(contents[i], Entry(k, v)))
Insert(i, k, v) ==
  /\ ret' = IF Has(contents[i], k) THEN "no" ELSE "yes"
  /\ SameOrder /\ Set(i, Keep(contents[i], Entry(k, v)))
Replace(i, k, v) ==
  LET s == contents[i]
  IN /\ ret' = IF Has(s, k) THEN "yes" ELSE "no"
     /\ SameOrder
     /\ Set(i, [p \in DOMAIN s |-> IF s[p].key = k THEN Entry(k, v) ELSE s[p]])

\* A lookup of a key that is there makes its entry the youngest of a map in
\* access order.
Get(i, k) ==
  LET found == SelectSeq(contents[i], LAMBDA e : e.key = k)
  IN /\ ret' = IF found = << >> THEN "no" ELSE "yes"
     /\ SameOrder
     /\ Set(i, IF order[i] THEN Except(contents[i], k) \o found ELSE contents[i])
RemoveKey(i, k) ==
  /\ ret' = IF Has(contents[i], k) THEN "yes" ELSE "no"
  /\ SameOrder /\ Set(i, Except(contents[i], k))
Clear(i)        == ret' = "done" /\ SameOrder /\ Set(i, << >>)
PutAll(i, j)    == ret' = "done" /\ SameOrder /\ Set(i, RenewAll(contents[i], contents[j]))
InsertAll(i, j) == ret' = "done" /\ SameOrder /\ Set(i, KeepAll(contents[i], contents[j]))

Next ==
  \/ Threw
  \/ \E i \in Maps : Construct(i)
  \/ \E i \in Maps, j \in live : CopyConstruct(i, j) \/ Move(i, j)
  \/ \E i, j \in live :
       \/ CopyAssign(i, j) \/ PutAll(i, j) \/ InsertAll(i, j)
       \/ ThrewPartWay(i, contents[j])
  \/ \E i \in live :
       \/ Clear(i) \/ Destroy(i)
       \/ \E k \in Keys :
            \/ RemoveKey(i, k) \/ Get(i, k)
            \/ \E v \in Values : Put(i, k, v) \/ Insert(i, k, v) \/ Replace(i, k, v)

Spec == Init /\ [][Next]_<< contents, order, ret >>
=============================================================================
