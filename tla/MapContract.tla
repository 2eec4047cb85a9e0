----------------------------- MODULE MapContract -----------------------------
(***************************************************************************)
(* What tc::hash_map promises its client (the comments of hash_map.hpp):   *)
(* each live map is a finite function from keys to values, whatever its    *)
(* table looks like and whichever allocation fails.                        *)
(***************************************************************************)
EXTENDS Naturals

CONSTANTS Maps, Keys, Values

VARIABLES
  contents,   \* live map -> (key -> value)
  ret         \* how the last call ended: "yes", "no", "done" or "threw"

\* f with the entries of g added; those of g win.
Override(f, g) == [x \in DOMAIN f \cup DOMAIN g |-> IF x \in DOMAIN g THEN g[x] ELSE f[x]]
Only(f, S)     == [x \in DOMAIN f \cap S |-> f[x]]
Maplet(k, v)   == [x \in {k} |-> v]

live == DOMAIN contents
Set(i, f) == contents' = Override(contents, Maplet(i, f))

Init == contents = << >> /\ ret = "done"

\* A call that throws leaves every map as it was.
Threw == ret' = "threw" /\ UNCHANGED contents

\* Only put_all and insert_all may throw with a part of their work done.
ThrewPartWay(i, g) ==
  /\ ret' = "threw"
  /\ \E S \in SUBSET DOMAIN g :
       Set(i, Override(contents[i], Only(g, S))) \/ Set(i, Override(Only(g, S), contents[i]))

Construct(i) == i \notin live /\ ret' = "done" /\ Set(i, << >>)
CopyConstruct(i, j) == i \notin live /\ ret' = "done" /\ Set(i, contents[j])
Destroy(i) == ret' = "done" /\ contents' = Only(contents, live \ {i})

\* The source of a move is valid but unspecified: it may hold anything either
\* map held.
MoveConstruct(i, j) ==
  /\ i \notin live
  /\ ret' = "done"
  /\ \E left \in {<< >>, contents[j]} :
       contents' = Override(Override(contents, Maplet(i, contents[j])), Maplet(j, left))
CopyAssign(i, j) == ret' = "done" /\ Set(i, contents[j])
MoveAssign(i, j) ==
  /\ ret' = "done"
  /\ \E left \in {<< >>, contents[i], contents[j]} :
       contents' = Override(Override(contents, Maplet(i, contents[j])), Maplet(j, left))

Put(i, k, v) == ret' = "yes" /\ Set(i, Override(contents[i], Maplet(k, v)))
Insert(i, k, v) ==
  IF k \in DOMAIN contents[i] THEN ret' = "no" /\ UNCHANGED contents
  ELSE Put(i, k, v)

\* Which Boolean replace returns is left open: the comment and the code differ.
Replace(i, k, v) ==
  /\ ret' \in {"yes", "no"}
  /\ IF k \in DOMAIN contents[i] THEN Set(i, Override(contents[i], Maplet(k, v)))
     ELSE UNCHANGED contents
Remove(i, k) ==
  /\ ret' = IF k \in DOMAIN contents[i] THEN "yes" ELSE "no"
  /\ Set(i, Only(contents[i], Keys \ {k}))
Clear(i) == ret' = "done" /\ Set(i, << >>)
PutAll(i, j) == ret' = "done" /\ Set(i, Override(contents[i], contents[j]))
InsertAll(i, j) == ret' = "done" /\ Set(i, Override(contents[j], contents[i]))

Next ==
  \/ Threw
  \/ \E i \in Maps : Construct(i)
  \/ \E i \in Maps, j \in live : CopyConstruct(i, j) \/ MoveConstruct(i, j)
  \/ \E i, j \in live :
       \/ CopyAssign(i, j) \/ PutAll(i, j) \/ InsertAll(i, j)
       \/ i # j /\ MoveAssign(i, j)
       \/ ThrewPartWay(i, contents[j])
  \/ \E i \in live :
       \/ Clear(i) \/ Destroy(i)
       \/ \E k \in Keys :
            \/ Remove(i, k)
            \/ \E v \in Values : Put(i, k, v) \/ Insert(i, k, v) \/ Replace(i, k, v)

Spec == Init /\ [][Next]_<< contents, ret >>
=============================================================================
