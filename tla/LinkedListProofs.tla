-------------------------- MODULE LinkedListProofs --------------------------
(***************************************************************************)
(* linked_list for any set of lists, any values, allocators and            *)
(* initial lists, and any node that is refused or value that throws: the   *)
(* two chains of every list mirror each other, no node is leaked, and each *)
(* call does to the contents what ListContract says.                       *)
(*                                                                         *)
(* Strung(c, s) says that s names the nodes of c from its head to its      *)
(* tail, and Holds, that they hold its contents; every operation on the    *)
(* links is a lemma that turns s, and every call of the class a lemma from *)
(* sound lists (Keeps, Fits) to sound lists.  The size is proved to be at  *)
(* most the number of nodes, and equal to it for clients that do not call  *)
(* add(idx) and remove_at in the middle.                                   *)
(***************************************************************************)
EXTENDS LinkedList, ListLemmas

-----------------------------------------------------------------------------
(* Walks *)

\* From the node `first' on, way leads over the n nodes of s.
LeadsOver(nodes, first, way, s, n) ==
  /\ n \in Nat /\ s \in [1 .. n -> Nat \ {0}]
  /\ DOMAIN nodes = {s[k] : k \in 1 .. n} /\ Cardinality(DOMAIN nodes) = n
  /\ first = IF n = 0 THEN 0 ELSE s[1]
  /\ \A k \in 1 .. n : nodes[s[k]][way] = IF k = n THEN 0 ELSE s[k + 1]

WalkGives(nodes, first, way, s) == Walk(nodes, first, way) = s

LEMMA WalkIs ==
  ASSUME NEW nodes, NEW first, NEW way, NEW s, NEW n, LeadsOver(nodes, first, way, s, n)
  PROVE  WalkGives(nodes, first, way, s)
<1> USE DEF Nil
<1> DEFINE ids == DOMAIN nodes
           To(m) == IF m \in ids THEN m ELSE Nil
           hop == [m \in ids \cup {Nil} |-> IF m = Nil THEN Nil ELSE To(nodes[m][way])]
           Rec(at) == at = [k \in 1 .. Cardinality(ids) + 1 |->
                              IF k = 1 THEN To(first) ELSE hop[at[k - 1]]]
           A == [k \in 1 .. n + 1 |-> IF k <= n THEN s[k] ELSE Nil]
           at == CHOOSE a : Rec(a)
           met == {k \in 1 .. Cardinality(ids) + 1 : at[k] # Nil}
<1>1. /\ n \in Nat /\ s \in [1 .. n -> Nat \ {0}] /\ ids = {s[k] : k \in 1 .. n}
      /\ Cardinality(ids) = n /\ first = IF n = 0 THEN 0 ELSE s[1]
      /\ \A k \in 1 .. n : nodes[s[k]][way] = IF k = n THEN 0 ELSE s[k + 1]
  BY DEF LeadsOver
<1>2. 0 \notin ids BY <1>1
<1>3. To(first) = A[1]
  <2>1. CASE n = 0 BY <1>1, <1>2, <2>1
  <2>2. CASE n # 0
    <3>1. 1 \in 1 .. n BY <1>1, <2>2
    <3> QED BY <1>1, <3>1
  <2> QED BY <2>1, <2>2
<1>4. \A k \in 2 .. n + 1 : hop[A[k - 1]] = A[k]
  <2> TAKE k \in 2 .. n + 1
  <2>1. k - 1 \in 1 .. n /\ A[k - 1] = s[k - 1] BY <1>1
  <2>2. s[k - 1] \in ids /\ s[k - 1] # 0 BY <1>1, <2>1
  <2>3. hop[A[k - 1]] = To(nodes[s[k - 1]][way]) BY <2>1, <2>2
  <2>4. nodes[s[k - 1]][way] = IF k - 1 = n THEN 0 ELSE s[k] BY <1>1, <2>1
  <2>5. CASE k = n + 1 BY <1>1, <1>2, <2>3, <2>4, <2>5
  <2>6. CASE k # n + 1
    <3>1. k \in 1 .. n BY <1>1, <2>6
    <3>2. A[k] = s[k] /\ k - 1 # n /\ s[k] \in ids BY <1>1, <2>6, <3>1
    <3>3. nodes[s[k - 1]][way] = s[k] BY <2>4, <3>2
    <3> QED BY <2>3, <3>2, <3>3
  <2> QED BY <2>5, <2>6
<1>5. Rec(A)
  <2>1. \A k \in 1 .. n + 1 : A[k] = IF k = 1 THEN To(first) ELSE hop[A[k - 1]]
    <3> TAKE k \in 1 .. n + 1
    <3>1. k = 1 \/ k \in 2 .. n + 1 BY <1>1
    <3> HIDE DEF hop, To, A
    <3> QED BY <1>3, <1>4, <3>1
  <2>2. A = [k \in 1 .. n + 1 |-> A[k]] OBVIOUS
  <2> HIDE DEF hop, To, A, ids
  <2> QED BY <1>1, <2>1, <2>2
<1> HIDE DEF A
<1>6. Rec(at) BY <1>5
<1> HIDE DEF at
<1>7. \A k \in 1 .. n + 1 : at[k] = A[k]
  <2> DEFINE S == {k \in 1 .. n + 1 : at[k] # A[k]}
  <2>1. SUFFICES ASSUME S # {} PROVE FALSE OBVIOUS
  <2>2. PICK m \in S : \A k \in S : m <= k
    <3>1. S \in SUBSET Nat BY <1>1
    <3> HIDE DEF S
    <3> QED BY <2>1, <3>1, LeastNat
  <2> HIDE DEF hop, To, ids
  <2>3. at[m] = IF m = 1 THEN To(first) ELSE hop[at[m - 1]] BY <1>1, <1>6, <2>2
  <2>4. m # 1 BY <1>3, <2>2, <2>3
  <2>5. m - 1 \in 1 .. n + 1 /\ m \in 2 .. n + 1 /\ ~ (m <= m - 1) BY <1>1, <2>2, <2>4
  <2>6. at[m - 1] = A[m - 1] BY <2>2, <2>5
  <2> QED BY <1>4, <2>2, <2>3, <2>4, <2>5, <2>6
<1>8. met = 1 .. n
  <2>1. \A k \in 1 .. n + 1 : at[k] # Nil <=> k <= n BY <1>1, <1>7 DEF A
  <2>2. met = {k \in 1 .. n + 1 : at[k] # Nil} BY <1>1
  <2>3. \A k : k \in 1 .. n <=> k \in 1 .. n + 1 /\ at[k] # Nil BY <1>1, <2>1
  <2> HIDE DEF ids, met
  <2> QED BY <2>2, <2>3
<1>9. Cardinality(1 .. n) = n BY <1>1, FS_Interval
<1>10. s = [k \in 1 .. n |-> at[k]]
  <2>1. \A k \in 1 .. n : at[k] = s[k] BY <1>1, <1>7 DEF A
  <2> QED BY <1>1, <2>1
<1>11. Walk(nodes, first, way) = [k \in 1 .. Cardinality(met) |-> at[k]]
  BY DEF Walk, at
<1> HIDE DEF met, ids
<1> QED BY <1>8, <1>9, <1>10, <1>11 DEF WalkGives

-----------------------------------------------------------------------------
(* Chains *)

\* The chain of l strings the n nodes of s.
Strung(l, s, n) ==
  /\ n \in Nat /\ s \in [1 .. n -> Nat \ {0}]
  /\ \A j, k \in 1 .. n : s[j] = s[k] => j = k
  /\ DOMAIN l.nodes = {s[k] : k \in 1 .. n}
  /\ IsFiniteSet(DOMAIN l.nodes) /\ Cardinality(DOMAIN l.nodes) = n
  /\ l.head = IF n = 0 THEN 0 ELSE s[1]
  /\ l.tail = IF n = 0 THEN 0 ELSE s[n]
  /\ \A k \in 1 .. n : /\ l.nodes[s[k]].prev = IF k = 1 THEN 0 ELSE s[k - 1]
                       /\ l.nodes[s[k]].next = IF k = n THEN 0 ELSE s[k + 1]

Backwards(s, n) == [k \in 1 .. n |-> s[n - k + 1]]

LEMMA StrungWalks ==
  ASSUME NEW l, NEW s, NEW n, Strung(l, s, n)
  PROVE  Forward(l) = s /\ Backward(l) = Backwards(s, n)
<1> DEFINE b == Backwards(s, n)
<1>1. LeadsOver(l.nodes, l.head, "next", s, n) BY DEF Strung, LeadsOver
<1>2. LeadsOver(l.nodes, l.tail, "prev", b, n)
  <2>1. b \in [1 .. n -> Nat \ {0}] BY DEF Strung, Backwards
  <2>2. DOMAIN l.nodes = {b[k] : k \in 1 .. n}
    <3>1. \A k \in 1 .. n : n - k + 1 \in 1 .. n /\ b[k] = s[n - k + 1] /\ b[n - k + 1] = s[k]
      BY DEF Strung, Backwards
    <3>2. DOMAIN l.nodes = {s[k] : k \in 1 .. n} BY DEF Strung
    <3> HIDE DEF b
    <3>3. \A x : (\E k \in 1 .. n : x = s[k]) <=> (\E k \in 1 .. n : x = b[k]) BY <3>1
    <3> QED BY <3>2, <3>3
  <2>3. l.tail = IF n = 0 THEN 0 ELSE b[1]
    <3>1. n # 0 => b[1] = s[n] BY DEF Strung, Backwards
    <3> QED BY <3>1 DEF Strung
  <2>4. \A k \in 1 .. n : l.nodes[b[k]].prev = IF k = n THEN 0 ELSE b[k + 1]
    <3> TAKE k \in 1 .. n
    <3>1. n \in Nat /\ n - k + 1 \in 1 .. n /\ b[k] = s[n - k + 1] BY DEF Strung, Backwards
    <3>2. l.nodes[b[k]].prev = IF n - k + 1 = 1 THEN 0 ELSE s[n - k + 1 - 1]
      BY <3>1 DEF Strung
    <3>3. CASE k = n BY <3>1, <3>2, <3>3
    <3>4. CASE k # n
      <4>1. k + 1 \in 1 .. n /\ n - (k + 1) + 1 = n - k + 1 - 1 BY <3>1, <3>4
      <4>2. b[k + 1] = s[n - (k + 1) + 1] BY <4>1 DEF Backwards
      <4> QED BY <3>1, <3>2, <3>4, <4>1, <4>2
    <3> QED BY <3>3, <3>4
  <2>5. n \in Nat /\ Cardinality(DOMAIN l.nodes) = n BY DEF Strung
  <2> HIDE DEF b
  <2> QED BY <2>1, <2>2, <2>3, <2>4, <2>5 DEF LeadsOver
<1> HIDE DEF b
<1>3. WalkGives(l.nodes, l.head, "next", s) BY <1>1, WalkIs
<1>4. WalkGives(l.nodes, l.tail, "prev", b) BY <1>2, WalkIs
<1> QED BY <1>3, <1>4 DEF WalkGives, Forward, Backward, b

-----------------------------------------------------------------------------
(* Links *)

NodeType == [prev : Nat, next : Nat, value : Values]

\* The shape of a list.
Linkable(l) ==
  /\ l \in [alloc : Allocators, nodes : {l.nodes}, head : Nat, tail : Nat, size : Int]
  /\ l.nodes \in [DOMAIN l.nodes -> NodeType] /\ DOMAIN l.nodes \subseteq Nat \ {0}

\* List d is c with other links: those named by the functions p and q.
Relinked(d, c, h, t, p, q) ==
  /\ Linkable(d) /\ d.alloc = c.alloc /\ d.size = c.size /\ d.head = h /\ d.tail = t
  /\ DOMAIN d.nodes = DOMAIN c.nodes
  /\ \A x \in DOMAIN c.nodes : /\ d.nodes[x].value = c.nodes[x].value
                               /\ d.nodes[x].prev = p[x] /\ d.nodes[x].next = q[x]

\* Nodes m are the nodes w with other links.
NodesRelinked(m, w, p, q) ==
  /\ m \in [DOMAIN w -> NodeType]
  /\ \A x \in DOMAIN w : /\ m[x].value = w[x].value /\ m[x].prev = p[x] /\ m[x].next = q[x]

\* Nodes m are the nodes w of D with y for the prev, or for the next, of x.
PrevSet(m, w, D, x, y) ==
  /\ m \in [D -> NodeType]
  /\ \A z \in D : /\ m[z].value = w[z].value /\ m[z].next = w[z].next
                  /\ m[z].prev = IF z = x THEN y ELSE w[z].prev
NextSet(m, w, D, x, y) ==
  /\ m \in [D -> NodeType]
  /\ \A z \in D : /\ m[z].value = w[z].value /\ m[z].prev = w[z].prev
                  /\ m[z].next = IF z = x THEN y ELSE w[z].next

LEMMA PrevIsSet ==
  ASSUME NEW D, NEW w \in [D -> NodeType], NEW x \in D, NEW y \in Nat
  PROVE  PrevSet([w EXCEPT ![x].prev = y], w, D, x, y)
<1> DEFINE e == [w[x] EXCEPT !.prev = y]
           m == [w EXCEPT ![x] = e]
<1>1. e \in NodeType /\ e.prev = y /\ e.next = w[x].next /\ e.value = w[x].value BY DEF NodeType
<1>2. [w EXCEPT ![x].prev = y] = m OBVIOUS
<1> HIDE DEF e
<1>3. m \in [D -> NodeType] /\ \A z \in D : m[z] = IF z = x THEN e ELSE w[z] BY <1>1
<1> HIDE DEF m
<1>4. PrevSet(m, w, D, x, y) BY <1>1, <1>3 DEF PrevSet
<1> QED BY <1>2, <1>4

LEMMA NextIsSet ==
  ASSUME NEW D, NEW w \in [D -> NodeType], NEW x \in D, NEW y \in Nat
  PROVE  NextSet([w EXCEPT ![x].next = y], w, D, x, y)
<1> DEFINE e == [w[x] EXCEPT !.next = y]
           m == [w EXCEPT ![x] = e]
<1>1. e \in NodeType /\ e.next = y /\ e.prev = w[x].prev /\ e.value = w[x].value BY DEF NodeType
<1>2. [w EXCEPT ![x].next = y] = m OBVIOUS
<1> HIDE DEF e
<1>3. m \in [D -> NodeType] /\ \A z \in D : m[z] = IF z = x THEN e ELSE w[z] BY <1>1
<1> HIDE DEF m
<1>4. NextSet(m, w, D, x, y) BY <1>1, <1>3 DEF NextSet
<1> QED BY <1>2, <1>4

\* Node n of w is hung behind the node t, or before the node h.
HungBehind(m, w, D, n, t) ==
  /\ m \in [D -> NodeType]
  /\ \A x \in D : /\ m[x].value = w[x].value
                  /\ m[x].prev = IF x = n THEN t ELSE w[x].prev
                  /\ m[x].next = IF x = t THEN n ELSE IF x = n THEN 0 ELSE w[x].next

HungBefore(m, w, D, n, h) ==
  /\ m \in [D -> NodeType]
  /\ \A x \in D : /\ m[x].value = w[x].value
                  /\ m[x].prev = IF x = h THEN n ELSE IF x = n THEN 0 ELSE w[x].prev
                  /\ m[x].next = IF x = n THEN h ELSE w[x].next

LEMMA HungBehindIs ==
  ASSUME NEW D, NEW w \in [D -> NodeType], NEW n \in D, NEW t \in D, n \in Nat, t \in Nat, t # n
  PROVE  HungBehind([w EXCEPT ![n].prev = t, ![n].next = 0, ![t].next = n], w, D, n, t)
<1> DEFINE m1 == [w EXCEPT ![n].prev = t]
           m2 == [m1 EXCEPT ![n].next = 0]
           m3 == [m2 EXCEPT ![t].next = n]
<1>1. PrevSet(m1, w, D, n, t) BY PrevIsSet
<1>2. [w EXCEPT ![n].prev = t, ![n].next = 0, ![t].next = n] = m3 OBVIOUS
<1> HIDE DEF m1
<1>3. NextSet(m2, m1, D, n, 0) BY <1>1, NextIsSet DEF PrevSet
<1> HIDE DEF m2
<1>4. NextSet(m3, m2, D, t, n) BY <1>3, NextIsSet DEF NextSet
<1> HIDE DEF m3
<1>5. HungBehind(m3, w, D, n, t) BY <1>1, <1>3, <1>4 DEF HungBehind, PrevSet, NextSet
<1> QED BY <1>2, <1>5

LEMMA HungBeforeIs ==
  ASSUME NEW D, NEW w \in [D -> NodeType], NEW n \in D, NEW h \in D, n \in Nat, h \in Nat, h # n
  PROVE  HungBefore([w EXCEPT ![n].prev = 0, ![n].next = h, ![h].prev = n], w, D, n, h)
<1> DEFINE m1 == [w EXCEPT ![n].prev = 0]
           m2 == [m1 EXCEPT ![n].next = h]
           m3 == [m2 EXCEPT ![h].prev = n]
<1>1. PrevSet(m1, w, D, n, 0) BY PrevIsSet
<1>2. [w EXCEPT ![n].prev = 0, ![n].next = h, ![h].prev = n] = m3 OBVIOUS
<1> HIDE DEF m1
<1>3. NextSet(m2, m1, D, n, h) BY <1>1, NextIsSet DEF PrevSet
<1> HIDE DEF m2
<1>4. PrevSet(m3, m2, D, h, n) BY <1>3, PrevIsSet DEF NextSet
<1> HIDE DEF m3
<1>5. HungBefore(m3, w, D, n, h) BY <1>1, <1>3, <1>4 DEF HungBefore, PrevSet, NextSet
<1> QED BY <1>2, <1>5

LEMMA LinksSet ==
  ASSUME NEW c, Linkable(c), NEW m, NEW p, NEW q, NodesRelinked(m, c.nodes, p, q),
         NEW h \in Nat, NEW t \in Nat, NEW d,
         \/ d = [c EXCEPT !.nodes = m, !.head = h, !.tail = t]
         \/ d = [c EXCEPT !.nodes = m, !.head = h] /\ t = c.tail
         \/ d = [c EXCEPT !.nodes = m, !.tail = t] /\ h = c.head
         \/ d = [c EXCEPT !.head = h, !.tail = t] /\ m = c.nodes
         \/ d = [c EXCEPT !.nodes = m] /\ h = c.head /\ t = c.tail
         \/ d \in [alloc : {c.alloc}, nodes : {m}, head : {h}, tail : {t}, size : {c.size}]
  PROVE  Relinked(d, c, h, t, p, q)
<1>1. /\ d \in [alloc : Allocators, nodes : {d.nodes}, head : Nat, tail : Nat, size : Int]
      /\ d.nodes = m /\ d.alloc = c.alloc /\ d.size = c.size /\ d.head = h /\ d.tail = t
  BY DEF Linkable
<1>2. DOMAIN m = DOMAIN c.nodes /\ DOMAIN c.nodes \subseteq Nat \ {0}
  BY DEF NodesRelinked, Linkable
<1> QED BY <1>1, <1>2 DEF Relinked, Linkable, NodesRelinked

SetsLinks(d, c, m, h, t) ==
  d \in [alloc : {c.alloc}, nodes : {m}, head : {h}, tail : {t}, size : {c.size}]

LEMMA SetsRelinks ==
  ASSUME NEW c, Linkable(c), NEW m, NEW p, NEW q, NodesRelinked(m, c.nodes, p, q),
         NEW h \in Nat, NEW t \in Nat, NEW d, SetsLinks(d, c, m, h, t)
  PROVE  Relinked(d, c, h, t, p, q)
<1>1. /\ d \in [alloc : Allocators, nodes : {d.nodes}, head : Nat, tail : Nat, size : Int]
      /\ d.nodes = m /\ d.alloc = c.alloc /\ d.size = c.size /\ d.head = h /\ d.tail = t
  BY DEF Linkable, SetsLinks
<1>2. DOMAIN m = DOMAIN c.nodes /\ DOMAIN c.nodes \subseteq Nat \ {0}
  BY DEF NodesRelinked, Linkable
<1> QED BY <1>1, <1>2 DEF Relinked, Linkable, NodesRelinked

LEMMA LinkLastSets ==
  ASSUME NEW c, Linkable(c), NEW n \in DOMAIN c.nodes
  PROVE  /\ c.tail = Nil =>
              SetsLinks(LinkLast(c, n), c, [c.nodes EXCEPT ![n].prev = 0, ![n].next = 0], n, n)
         /\ c.tail \in DOMAIN c.nodes =>
              SetsLinks(LinkLast(c, n), c,
                        [c.nodes EXCEPT ![n].prev = c.tail, ![n].next = 0, ![c.tail].next = n],
                        c.head, n)
<1>1. c.tail \in DOMAIN c.nodes => c.tail # 0 BY DEF Linkable
<1>2. c.tail = Nil =>
        SetsLinks(LinkLast(c, n), c, [c.nodes EXCEPT ![n].prev = 0, ![n].next = 0], n, n)
  BY DEF LinkLast, Linkable, SetsLinks, Nil
<1>3. c.tail \in DOMAIN c.nodes =>
        SetsLinks(LinkLast(c, n), c,
                  [c.nodes EXCEPT ![n].prev = c.tail, ![n].next = 0, ![c.tail].next = n],
                  c.head, n)
  <2> HAVE c.tail \in DOMAIN c.nodes
  <2> DEFINE m1 == [c.nodes EXCEPT ![n].prev = c.tail]
             m2 == [m1 EXCEPT ![n].next = 0]
             m3 == [m2 EXCEPT ![c.tail].next = n]
  <2>1. LinkLast(c, n) = [c EXCEPT !.nodes = m3, !.tail = n] BY <1>1 DEF LinkLast, Linkable, Nil
  <2> HIDE DEF m1, m2
  <2>2. [c EXCEPT !.nodes = m3, !.tail = n]
          \in [alloc : {c.alloc}, nodes : {m3}, head : {c.head}, tail : {n}, size : {c.size}]
    <3> HIDE DEF m3
    <3> QED BY DEF Linkable
  <2> QED BY <2>1, <2>2 DEF SetsLinks, m1, m2
<1> QED BY <1>2, <1>3

LEMMA LinkFirstSets ==
  ASSUME NEW c, Linkable(c), NEW n \in DOMAIN c.nodes
  PROVE  /\ c.head = Nil =>
              SetsLinks(LinkFirst(c, n), c, [c.nodes EXCEPT ![n].prev = 0, ![n].next = 0], n, n)
         /\ c.head \in DOMAIN c.nodes =>
              SetsLinks(LinkFirst(c, n), c,
                        [c.nodes EXCEPT ![n].prev = 0, ![n].next = c.head, ![c.head].prev = n],
                        n, c.tail)
<1>1. c.head \in DOMAIN c.nodes => c.head # 0 BY DEF Linkable
<1>2. c.head = Nil =>
        SetsLinks(LinkFirst(c, n), c, [c.nodes EXCEPT ![n].prev = 0, ![n].next = 0], n, n)
  BY DEF LinkFirst, Linkable, SetsLinks, Nil
<1>3. c.head \in DOMAIN c.nodes =>
        SetsLinks(LinkFirst(c, n), c,
                  [c.nodes EXCEPT ![n].prev = 0, ![n].next = c.head, ![c.head].prev = n],
                  n, c.tail)
  <2> HAVE c.head \in DOMAIN c.nodes
  <2> DEFINE m1 == [c.nodes EXCEPT ![n].prev = 0]
             m2 == [m1 EXCEPT ![n].next = c.head]
             m3 == [m2 EXCEPT ![c.head].prev = n]
  <2>1. LinkFirst(c, n) = [c EXCEPT !.nodes = m3, !.head = n] BY <1>1 DEF LinkFirst, Linkable, Nil
  <2> HIDE DEF m1, m2
  <2>2. [c EXCEPT !.nodes = m3, !.head = n]
          \in [alloc : {c.alloc}, nodes : {m3}, head : {n}, tail : {c.tail}, size : {c.size}]
    <3> HIDE DEF m3
    <3> QED BY DEF Linkable
  <2> QED BY <2>1, <2>2 DEF SetsLinks, m1, m2
<1> QED BY <1>2, <1>3

LEMMA LinkLastIs ==
  ASSUME NEW c, Linkable(c), NEW n \in DOMAIN c.nodes,
         c.tail = Nil \/ c.tail \in DOMAIN c.nodes \ {n},
         NEW h, h = IF c.tail = Nil THEN n ELSE c.head,
         NEW p, p = [x \in DOMAIN c.nodes |-> IF x = n THEN c.tail ELSE c.nodes[x].prev],
         NEW q, q = [x \in DOMAIN c.nodes |-> IF x = n THEN Nil ELSE
                                              IF x = c.tail THEN n ELSE c.nodes[x].next]
  PROVE  Relinked(LinkLast(c, n), c, h, n, p, q)
<1> USE DEF Nil
<1> DEFINE d == LinkLast(c, n)
           w == c.nodes
           t == c.tail
<1>1. n \in Nat \ {0} /\ DOMAIN w \subseteq Nat \ {0} /\ t \in Nat /\ c.head \in Nat
      /\ w \in [DOMAIN w -> NodeType]
  BY DEF Linkable
<1>2. CASE t = Nil
  <2> DEFINE m == [w EXCEPT ![n].prev = Nil, ![n].next = Nil]
  <2>1. SetsLinks(d, c, m, n, n) BY <1>2, LinkLastSets
  <2>2. NodesRelinked(m, w, p, q) BY <1>1, <1>2 DEF NodesRelinked, NodeType
  <2>3. h = n BY <1>2
  <2>4. Relinked(d, c, n, n, p, q)
    <3> HIDE DEF m, d
    <3> QED BY <1>1, <2>1, <2>2, SetsRelinks
  <2> QED BY <2>3, <2>4
<1>3. CASE t # Nil
  <2> DEFINE m == [w EXCEPT ![n].prev = t, ![n].next = Nil, ![t].next = n]
  <2>0. t \in DOMAIN w /\ t # n /\ t \in Nat BY <1>1, <1>3
  <2>1. SetsLinks(d, c, m, c.head, n) BY <2>0, LinkLastSets
  <2>3. HungBehind(m, w, DOMAIN w, n, t)
    <3>1. w \in [DOMAIN w -> NodeType] /\ n \in DOMAIN w /\ t \in DOMAIN w
          /\ n \in Nat /\ t \in Nat /\ t # n
      BY <1>1, <2>0
    <3> HIDE DEF w, t
    <3> QED BY <3>1, HungBehindIs
  <2> HIDE DEF m
  <2>4. \A x \in DOMAIN w : /\ p[x] = IF x = n THEN t ELSE w[x].prev
                            /\ q[x] = IF x = t THEN n ELSE IF x = n THEN 0 ELSE w[x].next
    BY <2>0
  <2>2. NodesRelinked(m, w, p, q)
    <3> HIDE DEF w, t
    <3> QED BY <2>3, <2>4 DEF HungBehind, NodesRelinked
  <2>5. h = c.head /\ h \in Nat BY <1>1, <1>3
  <2>6. Relinked(d, c, c.head, n, p, q)
    <3> HIDE DEF d
    <3> QED BY <1>1, <2>1, <2>2, SetsRelinks
  <2> QED BY <2>5, <2>6
<1> QED BY <1>2, <1>3

LEMMA LinkFirstIs ==
  ASSUME NEW c, Linkable(c), NEW n \in DOMAIN c.nodes,
         c.head = Nil \/ c.head \in DOMAIN c.nodes \ {n},
         NEW t, t = IF c.head = Nil THEN n ELSE c.tail,
         NEW p, p = [x \in DOMAIN c.nodes |-> IF x = n THEN Nil ELSE
                                              IF x = c.head THEN n ELSE c.nodes[x].prev],
         NEW q, q = [x \in DOMAIN c.nodes |-> IF x = n THEN c.head ELSE c.nodes[x].next]
  PROVE  Relinked(LinkFirst(c, n), c, n, t, p, q)
<1> USE DEF Nil
<1> DEFINE d == LinkFirst(c, n)
           w == c.nodes
           h == c.head
<1>1. n \in Nat \ {0} /\ DOMAIN w \subseteq Nat \ {0} /\ h \in Nat /\ c.tail \in Nat
      /\ w \in [DOMAIN w -> NodeType]
  BY DEF Linkable
<1>2. CASE h = Nil
  <2> DEFINE m == [w EXCEPT ![n].prev = Nil, ![n].next = Nil]
  <2>1. SetsLinks(d, c, m, n, n) BY <1>2, LinkFirstSets
  <2>2. NodesRelinked(m, w, p, q) BY <1>1, <1>2 DEF NodesRelinked, NodeType
  <2>3. t = n BY <1>2
  <2>4. Relinked(d, c, n, n, p, q)
    <3> HIDE DEF m, d
    <3> QED BY <1>1, <2>1, <2>2, SetsRelinks
  <2> QED BY <2>3, <2>4
<1>3. CASE h # Nil
  <2> DEFINE m == [w EXCEPT ![n].prev = Nil, ![n].next = h, ![h].prev = n]
  <2>0. h \in DOMAIN w /\ h # n /\ h \in Nat BY <1>1, <1>3
  <2>1. SetsLinks(d, c, m, n, c.tail) BY <2>0, LinkFirstSets
  <2>3. HungBefore(m, w, DOMAIN w, n, h)
    <3>1. w \in [DOMAIN w -> NodeType] /\ n \in DOMAIN w /\ h \in DOMAIN w
          /\ n \in Nat /\ h \in Nat /\ h # n
      BY <1>1, <2>0
    <3> HIDE DEF w, h
    <3> QED BY <3>1, HungBeforeIs
  <2> HIDE DEF m
  <2>4. \A x \in DOMAIN w : /\ p[x] = IF x = h THEN n ELSE IF x = n THEN 0 ELSE w[x].prev
                            /\ q[x] = IF x = n THEN h ELSE w[x].next
    BY <2>0
  <2>2. NodesRelinked(m, w, p, q)
    <3> HIDE DEF w, h
    <3> QED BY <2>3, <2>4 DEF HungBefore, NodesRelinked
  <2>5. t = c.tail /\ t \in Nat BY <1>1, <1>3
  <2>6. Relinked(d, c, n, c.tail, p, q)
    <3> HIDE DEF d
    <3> QED BY <1>1, <2>1, <2>2, SetsRelinks
  <2> QED BY <2>5, <2>6
<1> QED BY <1>2, <1>3

LEMMA UnlinkIs ==
  ASSUME NEW c, Linkable(c), NEW n \in DOMAIN c.nodes,
         NEW prev, prev = c.nodes[n].prev, prev = Nil \/ prev \in DOMAIN c.nodes,
         NEW next, next = c.nodes[n].next, next = Nil \/ next \in DOMAIN c.nodes,
         NEW h, h = IF prev = Nil THEN next ELSE c.head,
         NEW t, t = IF next = Nil THEN prev ELSE c.tail,
         NEW p, p = [x \in DOMAIN c.nodes |-> IF x = next THEN prev ELSE c.nodes[x].prev],
         NEW q, q = [x \in DOMAIN c.nodes |-> IF x = prev THEN next ELSE c.nodes[x].next]
  PROVE  Relinked(Unlink(c, n), c, h, t, p, q)
<1> USE DEF Nil
<1> DEFINE d == Unlink(c, n)
           w == c.nodes
<1>1. DOMAIN w \subseteq Nat \ {0} /\ prev \in Nat /\ next \in Nat /\ c.head \in Nat
      /\ c.tail \in Nat /\ w \in [DOMAIN w -> NodeType]
  BY DEF Linkable, NodeType
<1>2. h \in Nat /\ t \in Nat BY <1>1
<1>3. CASE prev = Nil /\ next = Nil
  <2>1. d = [c EXCEPT !.head = h, !.tail = t] BY <1>3 DEF Unlink
  <2>2. NodesRelinked(w, w, p, q) BY <1>1, <1>3 DEF NodesRelinked, NodeType
  <2> HIDE DEF d
  <2> QED BY <1>2, <2>1, <2>2, LinksSet DEF d
<1>4. CASE prev = Nil /\ next # Nil
  <2> DEFINE m == [w EXCEPT ![next].prev = prev]
  <2>1. d = [c EXCEPT !.nodes = m, !.head = h] /\ t = c.tail BY <1>4 DEF Unlink, Linkable
  <2>2. NodesRelinked(m, w, p, q) BY <1>1, <1>4 DEF NodesRelinked, NodeType
  <2> HIDE DEF m, d
  <2> QED BY <1>2, <2>1, <2>2, LinksSet DEF d
<1>5. CASE prev # Nil /\ next = Nil
  <2> DEFINE m == [w EXCEPT ![prev].next = next]
  <2>1. d = [c EXCEPT !.nodes = m, !.tail = t] /\ h = c.head BY <1>5 DEF Unlink, Linkable
  <2>2. NodesRelinked(m, w, p, q) BY <1>1, <1>5 DEF NodesRelinked, NodeType
  <2> HIDE DEF m, d
  <2> QED BY <1>2, <2>1, <2>2, LinksSet DEF d
<1>6. CASE prev # Nil /\ next # Nil
  <2> DEFINE m1 == [w EXCEPT ![prev].next = next]
             m == [m1 EXCEPT ![next].prev = prev]
  <2>1. d = [c EXCEPT !.nodes = m] /\ t = c.tail /\ h = c.head
    <3>1. d = [c EXCEPT !.nodes[prev].next = next, !.nodes[next].prev = prev] BY <1>6 DEF Unlink
    <3> QED BY <1>6, <3>1 DEF Linkable
  <2>2. NodesRelinked(m, w, p, q)
    <3>1. prev \in DOMAIN w /\ next \in DOMAIN w BY <1>6
    <3>2. /\ m1 \in [DOMAIN w -> NodeType]
          /\ \A x \in DOMAIN w : /\ m1[x].value = w[x].value /\ m1[x].prev = w[x].prev
                                 /\ m1[x].next = IF x = prev THEN next ELSE w[x].next
      BY <1>1, <3>1 DEF NodeType
    <3> HIDE DEF m1
    <3>3. /\ m \in [DOMAIN w -> NodeType]
          /\ \A x \in DOMAIN w : /\ m[x].value = m1[x].value /\ m[x].next = m1[x].next
                                 /\ m[x].prev = IF x = next THEN prev ELSE m1[x].prev
      BY <1>1, <3>1, <3>2 DEF NodeType
    <3> HIDE DEF m
    <3>4. \A x \in DOMAIN w : /\ p[x] = IF x = next THEN prev ELSE w[x].prev
                              /\ q[x] = IF x = prev THEN next ELSE w[x].next
      OBVIOUS
    <3> QED BY <3>2, <3>3, <3>4 DEF NodesRelinked
  <2> HIDE DEF m, d, w
  <2> QED BY <1>2, <2>1, <2>2, LinksSet DEF d, w
<1> QED BY <1>3, <1>4, <1>5, <1>6

-----------------------------------------------------------------------------
(* Lists of nodes that are strung in order *)

\* l is a list of the nodes s, in this order, that hold the n values t.
Holds(l, s, t, n) ==
  /\ Linkable(l) /\ Strung(l, s, n) /\ t \in [1 .. n -> Values]
  /\ \A k \in 1 .. n : l.nodes[s[k]].value = t[k]

\* x put at place p of the n of s, and what is at p taken away.
Put(s, n, p, x) == [k \in 1 .. n + 1 |-> IF k < p THEN s[k] ELSE IF k = p THEN x ELSE s[k - 1]]
Cut(s, n, p) == [k \in 1 .. n - 1 |-> IF k < p THEN s[k] ELSE s[k + 1]]

\* Node f is strung in at p.
PutIn(d, l, s, n, p, f, v) ==
  /\ f \in Nat \ {0} /\ f \notin DOMAIN l.nodes /\ DOMAIN d.nodes = DOMAIN l.nodes \cup {f}
  /\ d.head = IF p = 1 THEN f ELSE l.head
  /\ d.tail = IF p = n + 1 THEN f ELSE l.tail
  /\ d.nodes[f].prev = IF p = 1 THEN 0 ELSE s[p - 1]
  /\ d.nodes[f].next = IF p = n + 1 THEN 0 ELSE s[p]
  /\ d.nodes[f].value = v
  /\ \A k \in 1 .. n : /\ d.nodes[s[k]].value = l.nodes[s[k]].value
                       /\ d.nodes[s[k]].prev = IF k = p THEN f ELSE l.nodes[s[k]].prev
                       /\ d.nodes[s[k]].next = IF k = p - 1 THEN f ELSE l.nodes[s[k]].next

LEMMA PutInHolds ==
  ASSUME NEW l, NEW s, NEW t, NEW n, Holds(l, s, t, n), NEW d, Linkable(d),
         NEW p \in 1 .. n + 1, NEW f, NEW v \in Values, PutIn(d, l, s, n, p, f, v)
  PROVE  Holds(d, Put(s, n, p, f), Put(t, n, p, v), n + 1)
<1> DEFINE z == Put(s, n, p, f)
           u == Put(t, n, p, v)
<1>1. /\ n \in Nat /\ s \in [1 .. n -> Nat \ {0}] /\ t \in [1 .. n -> Values]
      /\ \A j, k \in 1 .. n : s[j] = s[k] => j = k
      /\ DOMAIN l.nodes = {s[k] : k \in 1 .. n}
      /\ IsFiniteSet(DOMAIN l.nodes) /\ Cardinality(DOMAIN l.nodes) = n
  BY DEF Holds, Strung
<1>2. f \in Nat \ {0} /\ (\A k \in 1 .. n : s[k] # f) /\ DOMAIN d.nodes = DOMAIN l.nodes \cup {f}
  BY <1>1 DEF PutIn
<1>3. \A k \in 1 .. n + 1 : /\ k < p => k \in 1 .. n /\ z[k] = s[k] /\ u[k] = t[k]
                            /\ k = p => z[k] = f /\ u[k] = v
                            /\ k > p => k - 1 \in 1 .. n /\ z[k] = s[k - 1] /\ u[k] = t[k - 1]
  BY <1>1 DEF Put
<1>4. DOMAIN z = 1 .. n + 1 /\ DOMAIN u = 1 .. n + 1
      /\ z = [k \in 1 .. n + 1 |-> z[k]] /\ u = [k \in 1 .. n + 1 |-> u[k]]
  BY DEF Put
<1> HIDE DEF z, u
<1>5. z \in [1 .. n + 1 -> Nat \ {0}] /\ u \in [1 .. n + 1 -> Values]
  <2>1. \A k \in 1 .. n + 1 : z[k] \in Nat \ {0} /\ u[k] \in Values BY <1>1, <1>2, <1>3
  <2> QED BY <1>4, <2>1
<1>6. \A j, k \in 1 .. n + 1 : z[j] = z[k] => j = k
  <2> SUFFICES ASSUME NEW j \in 1 .. n + 1, NEW k \in 1 .. n + 1, z[j] = z[k], j < k PROVE FALSE
    BY <1>1
  <2>1. CASE k < p BY <1>1, <1>3, <2>1
  <2>2. CASE k = p BY <1>1, <1>2, <1>3, <2>2
  <2>3. CASE k > p
    <3>1. k - 1 \in 1 .. n /\ z[k] = s[k - 1] BY <1>3, <2>3
    <3>2. CASE j < p BY <1>1, <1>3, <3>1, <3>2, <2>3, SMTT(20)
    <3>3. CASE j = p BY <1>1, <1>2, <1>3, <3>1, <3>3
    <3>4. CASE j > p
      <4>1. j - 1 \in 1 .. n /\ z[j] = s[j - 1] BY <1>3, <3>4
      <4>2. s[j - 1] = s[k - 1] BY <3>1, <4>1
      <4>3. j - 1 = k - 1 BY <1>1, <3>1, <4>1, <4>2
      <4> QED BY <4>3
    <3> QED BY <3>2, <3>3, <3>4
  <2> QED BY <1>1, <2>1, <2>2, <2>3
<1>7. DOMAIN d.nodes = {z[k] : k \in 1 .. n + 1}
  <2>1. ASSUME NEW x \in DOMAIN d.nodes PROVE \E k \in 1 .. n + 1 : x = z[k]
    <3>1. CASE x = f
      <4>1. p \in 1 .. n + 1 /\ z[p] = f BY <1>3
      <4> QED BY <3>1, <4>1
    <3>2. CASE x # f
      <4>1. PICK j \in 1 .. n : x = s[j] BY <1>1, <1>2, <3>2
      <4>2. CASE j < p
        <5>1. j \in 1 .. n + 1 /\ z[j] = s[j] BY <1>1, <1>3, <4>2
        <5> QED BY <4>1, <5>1
      <4>3. CASE j >= p
        <5>1. j + 1 \in 1 .. n + 1 /\ j + 1 > p BY <1>1, <4>3
        <5>2. z[j + 1] = s[j + 1 - 1] BY <1>3, <5>1
        <5>3. z[j + 1] = s[j] BY <5>2
        <5> QED BY <4>1, <5>1, <5>3
      <4> QED BY <1>1, <4>2, <4>3
    <3> QED BY <3>1, <3>2
  <2>2. \A k \in 1 .. n + 1 : z[k] \in DOMAIN d.nodes
    <3> TAKE k \in 1 .. n + 1
    <3> k < p \/ k = p \/ k > p BY <1>1
    <3> QED BY <1>1, <1>2, <1>3
  <2> QED BY <2>1, <2>2
<1>8. IsFiniteSet(DOMAIN d.nodes) /\ Cardinality(DOMAIN d.nodes) = n + 1
  <2> DEFINE D == DOMAIN l.nodes
             E == DOMAIN d.nodes
  <2>1. f \notin D /\ E = D \cup {f} /\ IsFiniteSet(D) /\ Cardinality(D) = n BY <1>1, <1>2 DEF PutIn
  <2> HIDE DEF D, E
  <2>2. IsFiniteSet(E) /\ Cardinality(E) = n + 1 BY <2>1, FS_AddElement
  <2> QED BY <2>2 DEF E
<1>9. /\ l.head = IF n = 0 THEN 0 ELSE s[1]
      /\ l.tail = IF n = 0 THEN 0 ELSE s[n]
      /\ \A k \in 1 .. n : /\ l.nodes[s[k]].prev = IF k = 1 THEN 0 ELSE s[k - 1]
                           /\ l.nodes[s[k]].next = IF k = n THEN 0 ELSE s[k + 1]
                           /\ l.nodes[s[k]].value = t[k]
  BY DEF Holds, Strung
<1>10. d.head = z[1]
  <2>1. d.head = IF p = 1 THEN f ELSE l.head BY DEF PutIn
  <2>2. CASE p = 1 BY <1>1, <1>3, <2>1, <2>2
  <2>3. CASE p # 1
    <3>1. n # 0 /\ 1 < p /\ 1 \in 1 .. n + 1 BY <1>1, <2>3
    <3> QED BY <1>3, <1>9, <2>1, <2>3, <3>1
  <2> QED BY <2>2, <2>3
<1>11. d.tail = z[n + 1]
  <2>1. d.tail = IF p = n + 1 THEN f ELSE l.tail BY DEF PutIn
  <2>2. CASE p = n + 1 BY <1>1, <1>3, <2>1, <2>2
  <2>3. CASE p # n + 1
    <3>1. n # 0 /\ n + 1 > p /\ n + 1 \in 1 .. n + 1 /\ n + 1 - 1 = n BY <1>1, <2>3
    <3>2. z[n + 1] = s[n]
      <4> DEFINE k == n + 1
      <4>1. k \in 1 .. n + 1 /\ k > p /\ k - 1 = n BY <1>1, <3>1
      <4> HIDE DEF k
      <4>2. z[k] = s[k - 1] BY <1>3, <4>1
      <4> QED BY <4>1, <4>2 DEF k
    <3> QED BY <1>9, <2>1, <2>3, <3>1, <3>2
  <2> QED BY <2>2, <2>3
<1>12. ASSUME NEW k \in 1 .. n + 1
       PROVE  /\ d.nodes[z[k]].prev = IF k = 1 THEN 0 ELSE z[k - 1]
              /\ d.nodes[z[k]].next = IF k = n + 1 THEN 0 ELSE z[k + 1]
              /\ d.nodes[z[k]].value = u[k]
  <2>1. CASE k = p
    <3>1. /\ z[k] = f /\ u[k] = v
          /\ d.nodes[f].prev = IF k = 1 THEN 0 ELSE s[k - 1]
          /\ d.nodes[f].next = IF k = n + 1 THEN 0 ELSE s[k]
          /\ d.nodes[f].value = v
      BY <1>3, <2>1 DEF PutIn
    <3>2. k # 1 => k - 1 \in 1 .. n + 1 /\ k - 1 < p BY <1>1, <2>1
    <3>3. k # 1 => z[k - 1] = s[k - 1] BY <1>3, <3>2
    <3>4. k # n + 1 => k + 1 \in 1 .. n + 1 /\ k + 1 > p /\ k + 1 - 1 = k BY <1>1, <2>1
    <3>5. k # n + 1 => z[k + 1] = s[k] BY <1>3, <3>4
    <3> QED BY <3>1, <3>3, <3>5
  <2>2. CASE k < p
    <3>1. k \in 1 .. n /\ z[k] = s[k] /\ u[k] = t[k] BY <1>3, <2>2
    <3>2. /\ d.nodes[s[k]].value = t[k]
          /\ d.nodes[s[k]].prev = IF k = 1 THEN 0 ELSE s[k - 1]
          /\ d.nodes[s[k]].next = IF k = p - 1 THEN f ELSE IF k = n THEN 0 ELSE s[k + 1]
      <4>1. k # p BY <1>1, <2>2
      <4>2. /\ d.nodes[s[k]].value = l.nodes[s[k]].value
            /\ d.nodes[s[k]].prev = l.nodes[s[k]].prev
            /\ d.nodes[s[k]].next = IF k = p - 1 THEN f ELSE l.nodes[s[k]].next
        BY <3>1, <4>1 DEF PutIn
      <4> QED BY <1>9, <3>1, <4>2
    <3>3. k # 1 => k - 1 \in 1 .. n + 1 /\ k - 1 < p BY <1>1, <2>2
    <3>4. k # 1 => z[k - 1] = s[k - 1] BY <1>3, <3>3
    <3>5. k # n + 1 /\ k + 1 \in 1 .. n + 1 BY <1>1, <3>1
    <3>6. CASE k = p - 1
      <4>1. k + 1 = p BY <3>6
      <4>2. z[k + 1] = f BY <1>3, <3>5, <4>1
      <4> QED BY <3>1, <3>2, <3>4, <3>5, <3>6, <4>2
    <3>7. CASE k # p - 1
      <4>1. k + 1 < p /\ k # n BY <1>1, <2>2, <3>7
      <4>2. z[k + 1] = s[k + 1] BY <1>3, <3>5, <4>1
      <4> QED BY <3>1, <3>2, <3>4, <3>5, <3>7, <4>1, <4>2
    <3> QED BY <3>6, <3>7
  <2>3. CASE k > p
    <3> DEFINE i == k - 1
    <3>1. i \in 1 .. n /\ z[k] = s[i] /\ u[k] = t[i] /\ k # 1 /\ i # p - 1 BY <1>1, <1>3, <2>3
    <3>2. /\ d.nodes[s[i]].value = t[i]
          /\ d.nodes[s[i]].prev = IF i = p THEN f ELSE IF i = 1 THEN 0 ELSE s[i - 1]
          /\ d.nodes[s[i]].next = IF i = n THEN 0 ELSE s[i + 1]
      <4> HIDE DEF i
      <4>1. /\ d.nodes[s[i]].value = l.nodes[s[i]].value
            /\ d.nodes[s[i]].prev = IF i = p THEN f ELSE l.nodes[s[i]].prev
            /\ d.nodes[s[i]].next = l.nodes[s[i]].next
        BY <3>1 DEF PutIn
      <4> QED BY <1>9, <3>1, <4>1
    <3>3. k # n + 1 => k + 1 \in 1 .. n + 1 /\ k + 1 > p /\ k + 1 - 1 = i + 1
      <4>1. k \in Nat /\ p \in Nat /\ k > p /\ n \in Nat /\ k <= n + 1 BY <1>1, <2>3
      <4> QED BY <4>1
    <3>4. k # n + 1 => z[k + 1] = s[i + 1] BY <1>3, <3>3
    <3>5. (k = n + 1) <=> (i = n) BY <1>1
    <3>6. k - 1 \in 1 .. n + 1 BY <1>1, <3>1
    <3>7. CASE i = p
      <4>1. z[k - 1] = f BY <1>3, <3>6, <3>7
      <4> HIDE DEF i
      <4> QED BY <3>1, <3>2, <3>4, <3>5, <3>7, <4>1
    <3>8. CASE i # p
      <4>1. i > p /\ i # 1 BY <1>1, <2>3, <3>8
      <4>2. z[k - 1] = s[i - 1] BY <1>3, <3>6, <4>1
      <4> HIDE DEF i
      <4> QED BY <3>1, <3>2, <3>4, <3>5, <3>8, <4>1, <4>2
    <3> QED BY <3>7, <3>8
  <2> QED BY <1>1, <2>1, <2>2, <2>3
<1>13. n + 1 \in Nat /\ n + 1 # 0 BY <1>1
<1>14. Strung(d, z, n + 1) BY <1>5, <1>6, <1>7, <1>8, <1>10, <1>11, <1>12, <1>13 DEF Strung
<1> QED BY <1>5, <1>12, <1>14 DEF Holds, z, u

\* The node at p is cut out.
CutOut(d, l, s, n, p) ==
  /\ DOMAIN d.nodes = DOMAIN l.nodes \ {s[p]}
  /\ d.head = IF p = 1 THEN l.nodes[s[p]].next ELSE l.head
  /\ d.tail = IF p = n THEN l.nodes[s[p]].prev ELSE l.tail
  /\ \A k \in 1 .. n : k # p =>
       /\ d.nodes[s[k]].value = l.nodes[s[k]].value
       /\ d.nodes[s[k]].prev = IF k = p + 1 THEN l.nodes[s[p]].prev ELSE l.nodes[s[k]].prev
       /\ d.nodes[s[k]].next = IF k = p - 1 THEN l.nodes[s[p]].next ELSE l.nodes[s[k]].next

LEMMA CutOutHolds ==
  ASSUME NEW l, NEW s, NEW t, NEW n, Holds(l, s, t, n), NEW d, Linkable(d),
         NEW p \in 1 .. n, CutOut(d, l, s, n, p)
  PROVE  Holds(d, Cut(s, n, p), Cut(t, n, p), n - 1)
<1> DEFINE z == Cut(s, n, p)
           u == Cut(t, n, p)
           N == n - 1
<1>1. /\ n \in Nat /\ s \in [1 .. n -> Nat \ {0}] /\ t \in [1 .. n -> Values]
      /\ \A j, k \in 1 .. n : s[j] = s[k] => j = k
      /\ DOMAIN l.nodes = {s[k] : k \in 1 .. n}
      /\ IsFiniteSet(DOMAIN l.nodes) /\ Cardinality(DOMAIN l.nodes) = n
  BY DEF Holds, Strung
<1>2. N \in Nat /\ n = N + 1 /\ n # 0 BY <1>1
<1>3. \A k \in 1 .. N : /\ k \in 1 .. n /\ k + 1 \in 1 .. n
                        /\ k < p => k # p /\ z[k] = s[k] /\ u[k] = t[k]
                        /\ k >= p => k + 1 # p /\ z[k] = s[k + 1] /\ u[k] = t[k + 1]
  BY <1>1, <1>2 DEF Cut
<1>4. DOMAIN z = 1 .. N /\ DOMAIN u = 1 .. N
      /\ z = [k \in 1 .. N |-> z[k]] /\ u = [k \in 1 .. N |-> u[k]]
  BY DEF Cut
<1> HIDE DEF z, u, N
<1>5. z \in [1 .. N -> Nat \ {0}] /\ u \in [1 .. N -> Values]
  <2>1. ASSUME NEW k \in 1 .. N PROVE z[k] \in Nat \ {0} /\ u[k] \in Values
    <3>1. \A j \in 1 .. n : s[j] \in Nat \ {0} /\ t[j] \in Values BY <1>1
    <3>2. k < p \/ k >= p BY <1>1, <1>2
    <3> QED BY <1>3, <3>1, <3>2
  <2> QED BY <1>4, <2>1
<1>6. \A j, k \in 1 .. N : z[j] = z[k] => j = k
  <2> TAKE j, k \in 1 .. N
  <2> HAVE z[j] = z[k]
  <2> DEFINE J == IF j < p THEN j ELSE j + 1
             K == IF k < p THEN k ELSE k + 1
  <2>1. J \in 1 .. n /\ K \in 1 .. n /\ z[j] = s[J] /\ z[k] = s[K] BY <1>1, <1>2, <1>3
  <2>2. J = K
    <3> HIDE DEF J, K
    <3> QED BY <1>1, <2>1
  <2> QED BY <1>1, <1>2, <2>2
<1>7. DOMAIN d.nodes = {z[k] : k \in 1 .. N}
  <2>1. ASSUME NEW x \in DOMAIN d.nodes PROVE \E k \in 1 .. N : x = z[k]
    <3>1. PICK j \in 1 .. n : x = s[j] BY <1>1 DEF CutOut
    <3>2. j # p BY <3>1 DEF CutOut
    <3>3. CASE j < p
      <4>1. j \in 1 .. N BY <1>1, <1>2, <3>3
      <4> QED BY <1>3, <3>1, <3>3, <4>1
    <3>4. CASE j > p
      <4> DEFINE i == j - 1
      <4>1. i \in 1 .. N /\ i >= p /\ i + 1 = j BY <1>1, <1>2, <3>4
      <4> HIDE DEF i
      <4>2. z[i] = s[i + 1] BY <1>3, <4>1
      <4> QED BY <3>1, <4>1, <4>2
    <3> QED BY <1>1, <3>2, <3>3, <3>4
  <2>2. \A k \in 1 .. N : z[k] \in DOMAIN d.nodes
    <3> TAKE k \in 1 .. N
    <3> DEFINE K == IF k < p THEN k ELSE k + 1
    <3>1. K \in 1 .. n /\ K # p /\ z[k] = s[K] BY <1>1, <1>2, <1>3
    <3> HIDE DEF K
    <3>2. s[K] # s[p] /\ s[K] \in DOMAIN l.nodes BY <1>1, <3>1
    <3> QED BY <3>1, <3>2 DEF CutOut
  <2> QED BY <2>1, <2>2
<1>8. IsFiniteSet(DOMAIN d.nodes) /\ Cardinality(DOMAIN d.nodes) = N
  <2> DEFINE D == DOMAIN l.nodes
             E == DOMAIN d.nodes
  <2>1. s[p] \in D /\ E = D \ {s[p]} /\ IsFiniteSet(D) /\ Cardinality(D) = n
    BY <1>1, <1>2 DEF CutOut
  <2> HIDE DEF D, E
  <2>2. IsFiniteSet(E) /\ Cardinality(E) = n - 1 BY <2>1, FS_RemoveElement
  <2> QED BY <1>2, <2>2 DEF E
<1>9. /\ l.head = s[1] /\ l.tail = s[n]
      /\ \A k \in 1 .. n : /\ l.nodes[s[k]].prev = IF k = 1 THEN 0 ELSE s[k - 1]
                           /\ l.nodes[s[k]].next = IF k = n THEN 0 ELSE s[k + 1]
                           /\ l.nodes[s[k]].value = t[k]
  BY <1>2 DEF Holds, Strung
<1>10. d.head = IF N = 0 THEN 0 ELSE z[1]
  <2>1. CASE p = 1
    <3>1. d.head = IF n = 1 THEN 0 ELSE s[2] BY <1>1, <1>9, <2>1 DEF CutOut
    <3>2. N # 0 => 1 \in 1 .. N /\ z[1] = s[2]
      <4>1. ASSUME N # 0 PROVE 1 \in 1 .. N BY <1>2, <4>1
      <4> QED BY <1>3, <2>1, <4>1
    <3> QED BY <1>2, <3>1, <3>2
  <2>2. CASE p # 1
    <3>1. d.head = s[1] /\ N # 0 /\ 1 \in 1 .. N /\ 1 < p BY <1>1, <1>2, <1>9, <2>2 DEF CutOut
    <3> QED BY <1>3, <3>1
  <2> QED BY <2>1, <2>2
<1>11. d.tail = IF N = 0 THEN 0 ELSE z[N]
  <2>1. CASE p = n
    <3>1. d.tail = IF n = 1 THEN 0 ELSE s[N] BY <1>1, <1>2, <1>9, <2>1 DEF CutOut
    <3>2. N # 0 => N \in 1 .. N /\ N < p BY <1>2, <2>1
    <3>3. N # 0 => z[N] = s[N] BY <1>3, <3>2
    <3> QED BY <1>2, <3>1, <3>3
  <2>2. CASE p # n
    <3>1. d.tail = s[n] /\ N # 0 /\ N \in 1 .. N /\ N >= p BY <1>1, <1>2, <1>9, <2>2 DEF CutOut
    <3>2. z[N] = s[N + 1] BY <1>3, <3>1
    <3> QED BY <1>2, <3>1, <3>2
  <2> QED BY <2>1, <2>2
<1>12. ASSUME NEW k \in 1 .. N
       PROVE  /\ d.nodes[z[k]].prev = IF k = 1 THEN 0 ELSE z[k - 1]
              /\ d.nodes[z[k]].next = IF k = N THEN 0 ELSE z[k + 1]
              /\ d.nodes[z[k]].value = u[k]
  <2>0. \A j \in 1 .. n : j # p =>
          /\ d.nodes[s[j]].value = t[j]
          /\ d.nodes[s[j]].prev = IF j = p + 1 THEN l.nodes[s[p]].prev ELSE l.nodes[s[j]].prev
          /\ d.nodes[s[j]].next = IF j = p - 1 THEN l.nodes[s[p]].next ELSE l.nodes[s[j]].next
    BY <1>9 DEF CutOut
  <2>1. CASE k < p
    <3>1. k \in 1 .. n /\ k # p /\ z[k] = s[k] /\ u[k] = t[k] /\ k # p + 1 /\ k # n
      BY <1>1, <1>2, <1>3, <2>1
    <3>2. d.nodes[s[k]].value = t[k] /\ d.nodes[s[k]].prev = IF k = 1 THEN 0 ELSE s[k - 1]
      BY <1>9, <2>0, <3>1
    <3>3. k # 1 => k - 1 \in 1 .. N /\ k - 1 < p BY <1>2, <2>1
    <3>4. k # 1 => z[k - 1] = s[k - 1] BY <1>3, <3>3
    <3>5. k # N => k + 1 \in 1 .. N BY <1>2
    <3>6. CASE k = p - 1
      <4>1. d.nodes[s[k]].next = IF p = n THEN 0 ELSE s[p + 1] BY <1>9, <2>0, <3>1, <3>6
      <4>2. p = k + 1 /\ (p = n <=> k = N) BY <1>2, <3>6
      <4>3. k # N => z[k + 1] = s[k + 1 + 1] BY <1>3, <3>5, <4>2
      <4> QED BY <3>1, <3>2, <3>4, <4>1, <4>2, <4>3
    <3>7. CASE k # p - 1
      <4>1. d.nodes[s[k]].next = s[k + 1] BY <1>9, <2>0, <3>1, <3>7
      <4>2. k + 1 < p /\ k # N BY <1>1, <1>2, <2>1, <3>7
      <4>3. z[k + 1] = s[k + 1] BY <1>3, <3>5, <4>2
      <4> QED BY <3>1, <3>2, <3>4, <4>1, <4>2, <4>3
    <3> QED BY <3>6, <3>7
  <2>2. CASE k >= p
    <3> DEFINE i == k + 1
    <3>1. i \in 1 .. n /\ i # p /\ z[k] = s[i] /\ u[k] = t[i] /\ i # p - 1 /\ i # 1
          /\ (i = n <=> k = N) /\ (i = p + 1 <=> k = p) /\ i - 1 = k /\ k \in 1 .. n
      BY <1>1, <1>2, <1>3, <2>2
    <3>2. k # N => k + 1 \in 1 .. N /\ k + 1 >= p /\ k + 1 + 1 = i + 1 BY <1>2, <2>2
    <3>3. k # N => z[k + 1] = s[i + 1] BY <1>3, <3>2
    <3>4. k # 1 => k - 1 \in 1 .. N /\ (k - 1 < p <=> k = p) /\ k - 1 + 1 = k BY <1>2, <2>2
    <3>5. k # 1 => z[k - 1] = IF k = p THEN s[k - 1] ELSE s[k]
      <4>1. k # 1 /\ k = p => z[k - 1] = s[k - 1] BY <1>3, <3>4
      <4>2. k # 1 /\ k # p => k - 1 >= p BY <1>2, <2>2
      <4>3. k # 1 /\ k # p => z[k - 1] = s[k - 1 + 1] BY <1>3, <3>4, <4>2
      <4> QED BY <3>4, <4>1, <4>3
    <3> HIDE DEF i
    <3>6. d.nodes[s[i]].value = t[i] /\ d.nodes[s[i]].next = IF i = n THEN 0 ELSE s[i + 1]
      BY <1>9, <2>0, <3>1
    <3>7. CASE k = p
      <4>1. d.nodes[s[i]].prev = IF k = 1 THEN 0 ELSE s[k - 1] BY <1>9, <2>0, <3>1, <3>7
      <4> QED BY <3>1, <3>3, <3>5, <3>6, <3>7, <4>1 DEF i
    <3>8. CASE k # p
      <4>1. d.nodes[s[i]].prev = s[k] BY <1>9, <2>0, <3>1, <3>8
      <4>2. k # 1 BY <1>1, <2>2, <3>8
      <4> QED BY <3>1, <3>3, <3>5, <3>6, <3>8, <4>1, <4>2 DEF i
    <3> QED BY <3>7, <3>8
  <2> QED BY <1>1, <2>1, <2>2
<1>13. Strung(d, z, N) BY <1>2, <1>5, <1>6, <1>7, <1>8, <1>10, <1>11, <1>12 DEF Strung
<1>14. Holds(d, z, u, N) BY <1>5, <1>12, <1>13 DEF Holds
<1> QED BY <1>14 DEF N, z, u

-----------------------------------------------------------------------------
(* Nodes that are added and deleted *)

LEMMA FreshIs ==
  ASSUME NEW l, NEW s, NEW n, Strung(l, s, n)
  PROVE  Fresh(l) \in Nat \ {0} /\ Fresh(l) \notin DOMAIN l.nodes
<1> DEFINE D == DOMAIN l.nodes
           S == (1 .. n + 1) \ D
<1>1. n \in Nat /\ IsFiniteSet(D) /\ Cardinality(D) = n BY DEF Strung
<1> HIDE DEF D
<1>2. S # {}
  <2> SUFFICES ASSUME S = {} PROVE FALSE OBVIOUS
  <2>1. 1 .. n + 1 \in SUBSET D OBVIOUS
  <2>2. Cardinality(1 .. n + 1) <= Cardinality(D) BY <1>1, <2>1, FS_Subset
  <2>3. Cardinality(1 .. n + 1) = n + 1 BY <1>1, FS_Interval
  <2> QED BY <1>1, <2>2, <2>3
<1>3. S \in SUBSET Nat /\ \A x \in S : x \in Nat \ {0} /\ x \notin D BY <1>1
<1>4. Fresh(l) = Min(S) BY <1>1 DEF Fresh, Nodes, D
<1> HIDE DEF S
<1>5. \E m \in S : \A k \in S : m <= k BY <1>2, <1>3, LeastNat
<1>6. Min(S) \in S BY <1>5 DEF Min
<1> QED BY <1>3, <1>4, <1>6 DEF D

\* c is l with one more node, still out of the chain.
OneMore(c, l, f, v) ==
  /\ Linkable(c) /\ c.alloc = l.alloc /\ c.head = l.head /\ c.tail = l.tail /\ c.size = l.size
  /\ f \in Nat \ {0} /\ f \notin DOMAIN l.nodes /\ DOMAIN c.nodes = DOMAIN l.nodes \cup {f}
  /\ c.nodes[f] = [prev |-> 0, next |-> 0, value |-> v]
  /\ \A x \in DOMAIN l.nodes : c.nodes[x] = l.nodes[x]

LEMMA NewNodeIs ==
  ASSUME NEW l, NEW s, NEW n, Linkable(l), Strung(l, s, n), NEW v \in Values
  PROVE  OneMore(new_node(l, v), l, Fresh(l), v)
<1> DEFINE f == Fresh(l)
           r == [prev |-> 0, next |-> 0, value |-> v]
           m == With(l.nodes, f, r)
           c == new_node(l, v)
<1>1. f \in Nat \ {0} /\ f \notin DOMAIN l.nodes BY FreshIs
<1>2. c = [l EXCEPT !.nodes = m] BY DEF new_node, Nil, Linkable
<1> HIDE DEF f
<1>3. /\ DOMAIN m = DOMAIN l.nodes \cup {f} /\ m[f] = r
      /\ \A x \in DOMAIN l.nodes : m[x] = l.nodes[x]
      /\ m = [x \in DOMAIN l.nodes \cup {f} |-> m[x]]
  BY <1>1 DEF With
<1>4. r \in NodeType BY DEF NodeType
<1> HIDE DEF m, r
<1>5. m \in [DOMAIN m -> NodeType] /\ DOMAIN m \subseteq Nat \ {0}
  <2>1. \A x \in DOMAIN m : m[x] \in NodeType /\ x \in Nat \ {0}
    BY <1>1, <1>3, <1>4 DEF Linkable
  <2> QED BY <1>3, <2>1
<1>6. /\ c \in [alloc : Allocators, nodes : {c.nodes}, head : Nat, tail : Nat, size : Int]
      /\ c.nodes = m /\ c.alloc = l.alloc /\ c.head = l.head /\ c.tail = l.tail
      /\ c.size = l.size
  BY <1>2 DEF Linkable
<1> HIDE DEF c
<1> QED BY <1>1, <1>3, <1>5, <1>6 DEF OneMore, Linkable, r, c, f

\* List l holds the n values t.
Sits(l, t, n) == \E s : Holds(l, s, t, n)

\* l has become d: the same allocator, the n values t and the size z.
Becomes(d, l, t, n, z) == Sits(d, t, n) /\ d.alloc = l.alloc /\ d.size = z

LEMMA SizeSet ==
  ASSUME NEW c, Linkable(c), NEW z \in Int, NEW d, d = [c EXCEPT !.size = z]
  PROVE  /\ Linkable(d) /\ d.alloc = c.alloc /\ d.nodes = c.nodes /\ d.head = c.head
         /\ d.tail = c.tail /\ d.size = z
<1>1. /\ d \in [alloc : Allocators, nodes : {d.nodes}, head : Nat, tail : Nat, size : Int]
      /\ d.alloc = c.alloc /\ d.nodes = c.nodes /\ d.head = c.head
      /\ d.tail = c.tail /\ d.size = z
  BY DEF Linkable
<1> QED BY <1>1 DEF Linkable

\* Where the nodes of a list and its ends point.
LEMMA HoldsNodes ==
  ASSUME NEW l, NEW s, NEW t, NEW n, Holds(l, s, t, n)
  PROVE  /\ Linkable(l) /\ Strung(l, s, n)
         /\ n \in Nat /\ s \in [1 .. n -> Nat \ {0}] /\ t \in [1 .. n -> Values]
         /\ \A j, k \in 1 .. n : s[j] = s[k] => j = k
         /\ DOMAIN l.nodes = {s[k] : k \in 1 .. n}
         /\ \A k \in 1 .. n : s[k] \in DOMAIN l.nodes
         /\ l.head = IF n = 0 THEN 0 ELSE s[1]
         /\ l.tail = IF n = 0 THEN 0 ELSE s[n]
         /\ l.alloc \in Allocators /\ l.size \in Int
         /\ \A k \in 1 .. n : /\ l.nodes[s[k]].prev = IF k = 1 THEN 0 ELSE s[k - 1]
                              /\ l.nodes[s[k]].next = IF k = n THEN 0 ELSE s[k + 1]
                              /\ l.nodes[s[k]].value = t[k]
<1>1. /\ Linkable(l) /\ Strung(l, s, n) /\ t \in [1 .. n -> Values]
      /\ \A k \in 1 .. n : l.nodes[s[k]].value = t[k]
  BY DEF Holds
<1>2. l.alloc \in Allocators /\ l.size \in Int BY <1>1 DEF Linkable
<1> QED BY <1>1, <1>2 DEF Strung

LEMMA AddedLastHolds ==
  ASSUME NEW l, NEW t, NEW n, Sits(l, t, n), NEW v \in Values
  PROVE  Becomes(AddedLast(l, v), l, Put(t, n, n + 1, v), n + 1, l.size + 1)
<1> DEFINE f == Fresh(l)
           c == new_node(l, v)
           e == LinkLast(c, f)
           d == AddedLast(l, v)
<1>1. PICK s : Holds(l, s, t, n) BY DEF Sits
<1>2. /\ Linkable(l) /\ Strung(l, s, n)
      /\ n \in Nat /\ s \in [1 .. n -> Nat \ {0}] /\ t \in [1 .. n -> Values]
      /\ \A j, k \in 1 .. n : s[j] = s[k] => j = k
      /\ DOMAIN l.nodes = {s[k] : k \in 1 .. n}
      /\ \A k \in 1 .. n : s[k] \in DOMAIN l.nodes
      /\ l.head = IF n = 0 THEN 0 ELSE s[1]
      /\ l.tail = IF n = 0 THEN 0 ELSE s[n]
      /\ l.alloc \in Allocators /\ l.size \in Int
      /\ \A k \in 1 .. n : l.nodes[s[k]].next = IF k = n THEN 0 ELSE s[k + 1]
  BY <1>1, HoldsNodes
<1>3. OneMore(c, l, f, v) BY <1>2, NewNodeIs
<1>4. d = [e EXCEPT !.size = @ + 1] BY DEF AddedLast
<1> HIDE DEF f, c
<1> DEFINE h == IF c.tail = Nil THEN f ELSE c.head
           p == [x \in DOMAIN c.nodes |-> IF x = f THEN c.tail ELSE c.nodes[x].prev]
           q == [x \in DOMAIN c.nodes |-> IF x = f THEN Nil ELSE
                                          IF x = c.tail THEN f ELSE c.nodes[x].next]
<1>5. Relinked(e, c, h, f, p, q)
  <2>1. f \in DOMAIN c.nodes /\ Linkable(c) BY <1>3 DEF OneMore
  <2>2. c.tail = Nil \/ c.tail \in DOMAIN c.nodes \ {f}
    <3>1. n # 0 => n \in 1 .. n BY <1>2
    <3> QED BY <1>2, <1>3, <3>1 DEF OneMore, Nil
  <2> HIDE DEF h, p, q
  <2> QED BY <2>1, <2>2, LinkLastIs DEF h, p, q
<1> HIDE DEF e, d
<1>6. /\ Linkable(d) /\ d.alloc = l.alloc /\ d.nodes = e.nodes /\ d.head = e.head
      /\ d.tail = e.tail /\ d.size = l.size + 1
  <2>1. Linkable(e) /\ e.size = l.size /\ e.alloc = l.alloc BY <1>3, <1>5 DEF Relinked, OneMore
  <2>2. d = [e EXCEPT !.size = l.size + 1] /\ l.size + 1 \in Int BY <1>2, <1>4, <2>1 DEF Linkable
  <2> QED BY <2>1, <2>2, SizeSet
<1> DEFINE P == n + 1
<1>7. PutIn(d, l, s, n, P, f, v)
  <2>1. /\ f \in Nat \ {0} /\ f \notin DOMAIN l.nodes /\ DOMAIN d.nodes = DOMAIN l.nodes \cup {f}
        /\ d.head = h /\ d.tail = f /\ c.head = l.head /\ c.tail = l.tail
        /\ \A x \in DOMAIN l.nodes : c.nodes[x] = l.nodes[x]
        /\ \A x \in DOMAIN c.nodes : /\ d.nodes[x].value = c.nodes[x].value
                                     /\ d.nodes[x].prev = p[x] /\ d.nodes[x].next = q[x]
        /\ c.nodes[f].value = v /\ DOMAIN c.nodes = DOMAIN l.nodes \cup {f}
    <3> HIDE DEF h, p, q
    <3> QED BY <1>3, <1>5, <1>6 DEF Relinked, OneMore
  <2>2. P - 1 = n /\ (P = 1 <=> n = 0) /\ P \in Nat /\ (\A k \in 1 .. n : k # P) BY <1>2
  <2>3. d.head = IF P = 1 THEN f ELSE l.head
    <3>1. n # 0 => n \in 1 .. n /\ s[n] # 0 BY <1>2
    <3> QED BY <1>2, <2>1, <2>2, <3>1 DEF Nil
  <2>4. /\ d.nodes[f].prev = IF P = 1 THEN 0 ELSE s[P - 1]
        /\ d.nodes[f].next = 0 /\ d.nodes[f].value = v
    <3>1. f \in DOMAIN c.nodes BY <2>1
    <3>2. p[f] = l.tail /\ q[f] = 0 BY <2>1, <3>1 DEF Nil
    <3> HIDE DEF p, q, P, h
    <3> QED BY <1>2, <2>1, <2>2, <3>1, <3>2
  <2>5. ASSUME NEW k \in 1 .. n
        PROVE  /\ d.nodes[s[k]].value = l.nodes[s[k]].value
               /\ d.nodes[s[k]].prev = IF k = P THEN f ELSE l.nodes[s[k]].prev
               /\ d.nodes[s[k]].next = IF k = P - 1 THEN f ELSE l.nodes[s[k]].next
    <3>1. s[k] \in DOMAIN l.nodes /\ s[k] # f /\ k # P /\ n \in 1 .. n /\ n # 0
      BY <1>2, <2>1, <2>2
    <3>2. l.tail = s[n] /\ (s[k] = s[n] <=> k = n) BY <1>2, <3>1
    <3>3. d.nodes[s[k]].value = l.nodes[s[k]].value
          /\ d.nodes[s[k]].prev = p[s[k]] /\ d.nodes[s[k]].next = q[s[k]]
      <4>1. s[k] \in DOMAIN c.nodes /\ c.nodes[s[k]] = l.nodes[s[k]] BY <2>1, <3>1
      <4> HIDE DEF p, q, h
      <4> QED BY <2>1, <4>1
    <3>4. p[s[k]] = l.nodes[s[k]].prev BY <2>1, <3>1
    <3>5. q[s[k]] = IF s[k] = s[n] THEN f ELSE l.nodes[s[k]].next BY <2>1, <3>1, <3>2
    <3> HIDE DEF p, q, P
    <3> QED BY <2>2, <3>1, <3>2, <3>3, <3>4, <3>5
  <2> HIDE DEF h, p, q
  <2>6. P = n + 1 OBVIOUS
  <2> HIDE DEF P
  <2> QED BY <2>1, <2>3, <2>4, <2>5, <2>6 DEF PutIn
<1>8. Holds(d, Put(s, n, n + 1, f), Put(t, n, n + 1, v), n + 1)
  <2> n + 1 \in 1 .. n + 1 BY <1>2
  <2> QED BY <1>1, <1>6, <1>7, PutInHolds
<1>9. Sits(d, Put(t, n, n + 1, v), n + 1) BY <1>8 DEF Sits
<1> QED BY <1>6, <1>9 DEF Becomes, d

LEMMA AddedFirstHolds ==
  ASSUME NEW l, NEW t, NEW n, Sits(l, t, n), NEW v \in Values
  PROVE  Becomes(AddedFirst(l, v), l, Put(t, n, 1, v), n + 1, l.size + 1)
<1> DEFINE f == Fresh(l)
           c == new_node(l, v)
           e == LinkFirst(c, f)
           d == AddedFirst(l, v)
<1>1. PICK s : Holds(l, s, t, n) BY DEF Sits
<1>2. /\ Linkable(l) /\ Strung(l, s, n)
      /\ n \in Nat /\ s \in [1 .. n -> Nat \ {0}] /\ t \in [1 .. n -> Values]
      /\ \A j, k \in 1 .. n : s[j] = s[k] => j = k
      /\ DOMAIN l.nodes = {s[k] : k \in 1 .. n}
      /\ \A k \in 1 .. n : s[k] \in DOMAIN l.nodes
      /\ l.head = IF n = 0 THEN 0 ELSE s[1]
      /\ l.tail = IF n = 0 THEN 0 ELSE s[n]
      /\ l.alloc \in Allocators /\ l.size \in Int
  BY <1>1, HoldsNodes
<1>3. OneMore(c, l, f, v) BY <1>2, NewNodeIs
<1>4. d = [e EXCEPT !.size = @ + 1] BY DEF AddedFirst
<1> HIDE DEF f, c
<1> DEFINE b == IF c.head = Nil THEN f ELSE c.tail
           p == [x \in DOMAIN c.nodes |-> IF x = f THEN Nil ELSE
                                          IF x = c.head THEN f ELSE c.nodes[x].prev]
           q == [x \in DOMAIN c.nodes |-> IF x = f THEN c.head ELSE c.nodes[x].next]
<1>5. Relinked(e, c, f, b, p, q)
  <2>1. f \in DOMAIN c.nodes /\ Linkable(c) BY <1>3 DEF OneMore
  <2>2. c.head = Nil \/ c.head \in DOMAIN c.nodes \ {f}
    <3>1. n # 0 => 1 \in 1 .. n BY <1>2
    <3> QED BY <1>2, <1>3, <3>1 DEF OneMore, Nil
  <2> HIDE DEF b, p, q
  <2> QED BY <2>1, <2>2, LinkFirstIs DEF b, p, q
<1> HIDE DEF e, d
<1>6. /\ Linkable(d) /\ d.alloc = l.alloc /\ d.nodes = e.nodes /\ d.head = e.head
      /\ d.tail = e.tail /\ d.size = l.size + 1
  <2>1. Linkable(e) /\ e.size = l.size /\ e.alloc = l.alloc BY <1>3, <1>5 DEF Relinked, OneMore
  <2>2. d = [e EXCEPT !.size = l.size + 1] /\ l.size + 1 \in Int BY <1>2, <1>4, <2>1 DEF Linkable
  <2> QED BY <2>1, <2>2, SizeSet
<1>7. PutIn(d, l, s, n, 1, f, v)
  <2>1. /\ f \in Nat \ {0} /\ f \notin DOMAIN l.nodes /\ DOMAIN d.nodes = DOMAIN l.nodes \cup {f}
        /\ d.head = f /\ d.tail = b /\ c.head = l.head /\ c.tail = l.tail
        /\ \A x \in DOMAIN l.nodes : c.nodes[x] = l.nodes[x]
        /\ \A x \in DOMAIN c.nodes : /\ d.nodes[x].value = c.nodes[x].value
                                     /\ d.nodes[x].prev = p[x] /\ d.nodes[x].next = q[x]
        /\ c.nodes[f].value = v /\ DOMAIN c.nodes = DOMAIN l.nodes \cup {f}
    <3> HIDE DEF b, p, q
    <3> QED BY <1>3, <1>5, <1>6 DEF Relinked, OneMore
  <2>2. (1 = n + 1 <=> n = 0) /\ (\A k \in 1 .. n : k # 0) BY <1>2
  <2>3. d.tail = IF 1 = n + 1 THEN f ELSE l.tail
    <3>1. n # 0 => 1 \in 1 .. n /\ s[1] # 0 BY <1>2
    <3> QED BY <1>2, <2>1, <2>2, <3>1 DEF Nil
  <2>4. /\ d.nodes[f].prev = 0
        /\ d.nodes[f].next = IF 1 = n + 1 THEN 0 ELSE s[1]
        /\ d.nodes[f].value = v
    <3>1. f \in DOMAIN c.nodes BY <2>1
    <3>2. p[f] = 0 /\ q[f] = l.head BY <2>1, <3>1 DEF Nil
    <3> HIDE DEF p, q, b
    <3> QED BY <1>2, <2>1, <2>2, <3>1, <3>2
  <2>5. ASSUME NEW k \in 1 .. n
        PROVE  /\ d.nodes[s[k]].value = l.nodes[s[k]].value
               /\ d.nodes[s[k]].prev = IF k = 1 THEN f ELSE l.nodes[s[k]].prev
               /\ d.nodes[s[k]].next = l.nodes[s[k]].next
    <3>1. s[k] \in DOMAIN l.nodes /\ s[k] # f /\ 1 \in 1 .. n /\ n # 0 BY <1>2, <2>1
    <3>2. l.head = s[1] /\ (s[k] = s[1] <=> k = 1) BY <1>2, <3>1
    <3>3. d.nodes[s[k]].value = l.nodes[s[k]].value
          /\ d.nodes[s[k]].prev = p[s[k]] /\ d.nodes[s[k]].next = q[s[k]]
      <4>1. s[k] \in DOMAIN c.nodes /\ c.nodes[s[k]] = l.nodes[s[k]] BY <2>1, <3>1
      <4> HIDE DEF p, q, b
      <4> QED BY <2>1, <4>1
    <3>4. q[s[k]] = l.nodes[s[k]].next BY <2>1, <3>1
    <3>5. p[s[k]] = IF s[k] = s[1] THEN f ELSE l.nodes[s[k]].prev BY <2>1, <3>1, <3>2
    <3> HIDE DEF p, q
    <3> QED BY <3>1, <3>2, <3>3, <3>4, <3>5
  <2> HIDE DEF b, p, q
  <2> QED BY <2>1, <2>2, <2>3, <2>4, <2>5 DEF PutIn
<1>8. Holds(d, Put(s, n, 1, f), Put(t, n, 1, v), n + 1)
  <2> 1 \in 1 .. n + 1 BY <1>2
  <2> QED BY <1>1, <1>6, <1>7, PutInHolds
<1>9. Sits(d, Put(t, n, 1, v), n + 1) BY <1>8 DEF Sits
<1> QED BY <1>6, <1>9 DEF Becomes, d

LEMMA AddedBeforeHolds ==
  ASSUME NEW l, NEW s, NEW t, NEW n, Holds(l, s, t, n), NEW p \in 2 .. n, NEW v \in Values
  PROVE  Becomes(AddedBefore(l, s[p], v), l, Put(t, n, p, v), n + 1, l.size)
<1> DEFINE f == Fresh(l)
           c == new_node(l, v)
           cur == s[p]
           prev == l.nodes[cur].prev
           d == AddedBefore(l, cur, v)
           w == c.nodes
           m1 == [w EXCEPT ![f].prev = prev, ![f].next = cur]
           m2 == [m1 EXCEPT ![cur].prev = f, ![prev].next = f]
           m == [w EXCEPT ![f].prev = prev, ![f].next = cur, ![cur].prev = f, ![prev].next = f]
           P == [x \in DOMAIN w |-> IF x = f THEN prev ELSE IF x = cur THEN f ELSE w[x].prev]
           Q == [x \in DOMAIN w |-> IF x = f THEN cur ELSE IF x = prev THEN f ELSE w[x].next]
<1>2. /\ Linkable(l) /\ Strung(l, s, n)
      /\ n \in Nat /\ s \in [1 .. n -> Nat \ {0}] /\ t \in [1 .. n -> Values]
      /\ \A j, k \in 1 .. n : s[j] = s[k] => j = k
      /\ DOMAIN l.nodes = {s[k] : k \in 1 .. n}
      /\ \A k \in 1 .. n : s[k] \in DOMAIN l.nodes
      /\ l.alloc \in Allocators /\ l.size \in Int
      /\ \A k \in 1 .. n : l.nodes[s[k]].prev = IF k = 1 THEN 0 ELSE s[k - 1]
  BY HoldsNodes
<1>3. OneMore(c, l, f, v) BY <1>2, NewNodeIs
<1>4. p \in 1 .. n /\ p - 1 \in 1 .. n /\ p # 1 /\ p # n + 1 /\ p \in 1 .. n + 1 BY <1>2
<1>5. /\ prev = s[p - 1] /\ cur \in DOMAIN l.nodes /\ prev \in DOMAIN l.nodes /\ cur # prev
      /\ cur \in Nat /\ prev \in Nat
  BY <1>2, <1>4
<1>6. d = [c EXCEPT !.nodes[f].prev = prev, !.nodes[f].next = cur,
                    !.nodes[cur].prev = f, !.nodes[prev].next = f]
  BY DEF AddedBefore
<1> HIDE DEF f, c, prev, cur, d
<1>7. /\ Linkable(c) /\ c.alloc = l.alloc /\ c.head = l.head /\ c.tail = l.tail /\ c.size = l.size
      /\ f \in Nat \ {0} /\ f \notin DOMAIN l.nodes /\ DOMAIN w = DOMAIN l.nodes \cup {f}
      /\ w[f].value = v /\ f # cur /\ f # prev /\ c.head \in Nat /\ c.tail \in Nat
      /\ w \in [DOMAIN w -> NodeType]
      /\ \A x \in DOMAIN l.nodes : w[x] = l.nodes[x]
  BY <1>3, <1>5 DEF OneMore, Linkable
<1>8. d \in [alloc : {c.alloc}, nodes : {m}, head : {c.head}, tail : {c.tail}, size : {c.size}]
  <2> DEFINE c1 == [c EXCEPT !.nodes[f].prev = prev, !.nodes[f].next = cur]
  <2>1. d = [c1 EXCEPT !.nodes[cur].prev = f, !.nodes[prev].next = f] BY <1>6
  <2>2. c1 \in [alloc : {c.alloc}, nodes : {m1}, head : {c.head}, tail : {c.tail}, size : {c.size}]
    <3> HIDE DEF m, m2
    <3> QED BY <1>7 DEF Linkable
  <2> HIDE DEF c1, m1, m, w
  <2>3. d \in [alloc : {c.alloc}, nodes : {m2}, head : {c.head}, tail : {c.tail}, size : {c.size}]
    BY <2>1, <2>2
  <2>4. m = m2 BY DEF m, m1
  <2> QED BY <2>3, <2>4
<1>9. NodesRelinked(m, w, P, Q)
  <2>0. m = m2 OBVIOUS
  <2> USE DEF NodeType
  <2> HIDE DEF w, m
  <2>1. /\ m1 \in [DOMAIN w -> NodeType]
        /\ \A x \in DOMAIN w : /\ m1[x].value = w[x].value
                               /\ m1[x].prev = IF x = f THEN prev ELSE w[x].prev
                               /\ m1[x].next = IF x = f THEN cur ELSE w[x].next
    <3> DEFINE a1 == [w EXCEPT ![f].prev = prev]
               a2 == [a1 EXCEPT ![f].next = cur]
    <3>1. m1 = a2 OBVIOUS
    <3>2. PrevSet(a1, w, DOMAIN w, f, prev) BY <1>5, <1>7, PrevIsSet
    <3> HIDE DEF m1, a1
    <3>3. NextSet(a2, a1, DOMAIN w, f, cur) BY <1>5, <1>7, <3>2, NextIsSet DEF PrevSet
    <3> HIDE DEF a2
    <3> QED BY <3>1, <3>2, <3>3 DEF PrevSet, NextSet
  <2> HIDE DEF m1
  <2>2. /\ m \in [DOMAIN w -> NodeType]
        /\ \A x \in DOMAIN w : /\ m[x].value = m1[x].value
                               /\ m[x].prev = IF x = cur THEN f ELSE m1[x].prev
                               /\ m[x].next = IF x = prev THEN f ELSE m1[x].next
    <3> DEFINE b1 == [m1 EXCEPT ![cur].prev = f]
               b2 == [b1 EXCEPT ![prev].next = f]
    <3>1. m2 = b2 OBVIOUS
    <3>2. PrevSet(b1, m1, DOMAIN w, cur, f) BY <1>5, <1>7, <2>1, PrevIsSet
    <3> HIDE DEF m2, b1
    <3>3. NextSet(b2, b1, DOMAIN w, prev, f) BY <1>5, <1>7, <3>2, NextIsSet DEF PrevSet
    <3> HIDE DEF b2
    <3> QED BY <2>0, <3>1, <3>2, <3>3 DEF PrevSet, NextSet
  <2> HIDE DEF m2
  <2>3. \A x \in DOMAIN w : /\ P[x] = IF x = f THEN prev ELSE IF x = cur THEN f ELSE w[x].prev
                            /\ Q[x] = IF x = f THEN cur ELSE IF x = prev THEN f ELSE w[x].next
    OBVIOUS
  <2> HIDE DEF P, Q
  <2> QED BY <1>7, <2>1, <2>2, <2>3 DEF NodesRelinked
<1> HIDE DEF m
<1>10. Relinked(d, c, c.head, c.tail, P, Q)
  <2> HIDE DEF P, Q
  <2> QED BY <1>7, <1>8, <1>9, LinksSet
<1>11. PutIn(d, l, s, n, p, f, v)
  <2>1. /\ DOMAIN d.nodes = DOMAIN w /\ d.head = l.head /\ d.tail = l.tail
        /\ \A x \in DOMAIN w : /\ d.nodes[x].value = w[x].value
                               /\ d.nodes[x].prev = P[x] /\ d.nodes[x].next = Q[x]
    <3> HIDE DEF P, Q
    <3> QED BY <1>7, <1>10 DEF Relinked
  <2>2. \A x \in DOMAIN w : /\ P[x] = IF x = f THEN prev ELSE IF x = cur THEN f ELSE w[x].prev
                            /\ Q[x] = IF x = f THEN cur ELSE IF x = prev THEN f ELSE w[x].next
    OBVIOUS
  <2> HIDE DEF P, Q, w
  <2>3. d.nodes[f].prev = s[p - 1] /\ d.nodes[f].next = s[p] /\ d.nodes[f].value = v
    BY <1>5, <1>7, <2>1, <2>2 DEF cur
  <2>4. ASSUME NEW k \in 1 .. n
        PROVE  /\ d.nodes[s[k]].value = l.nodes[s[k]].value
               /\ d.nodes[s[k]].prev = IF k = p THEN f ELSE l.nodes[s[k]].prev
               /\ d.nodes[s[k]].next = IF k = p - 1 THEN f ELSE l.nodes[s[k]].next
    <3>1. s[k] \in DOMAIN l.nodes /\ s[k] \in DOMAIN w /\ s[k] # f /\ w[s[k]] = l.nodes[s[k]]
      BY <1>2, <1>7
    <3>2. (s[k] = cur <=> k = p) /\ (s[k] = prev <=> k = p - 1) BY <1>2, <1>4, <1>5 DEF cur
    <3> QED BY <2>1, <2>2, <3>1, <3>2
  <2> QED BY <1>4, <1>7, <2>1, <2>3, <2>4 DEF PutIn
<1>12. Linkable(d) /\ d.alloc = l.alloc /\ d.size = l.size BY <1>7, <1>10 DEF Relinked
<1>13. Holds(d, Put(s, n, p, f), Put(t, n, p, v), n + 1) BY <1>4, <1>11, <1>12, PutInHolds
<1>14. Sits(d, Put(t, n, p, v), n + 1) BY <1>13 DEF Sits
<1> QED BY <1>12, <1>14 DEF Becomes, d, cur

LEMMA UnlinkedHolds ==
  ASSUME NEW l, NEW s, NEW t, NEW n, Holds(l, s, t, n), NEW p \in 1 .. n
  PROVE  Becomes(unlink(l, s[p]), l, Cut(t, n, p), n - 1, l.size - 1)
<1> DEFINE x == s[p]
           prev == l.nodes[x].prev
           next == l.nodes[x].next
           e == Unlink(l, x)
           d == unlink(l, x)
           m == Without(e.nodes, x)
           h == IF prev = Nil THEN next ELSE l.head
           b == IF next = Nil THEN prev ELSE l.tail
           P == [y \in DOMAIN l.nodes |-> IF y = next THEN prev ELSE l.nodes[y].prev]
           Q == [y \in DOMAIN l.nodes |-> IF y = prev THEN next ELSE l.nodes[y].next]
<1>1. /\ Linkable(l) /\ Strung(l, s, n)
      /\ n \in Nat /\ s \in [1 .. n -> Nat \ {0}] /\ t \in [1 .. n -> Values]
      /\ \A j, k \in 1 .. n : s[j] = s[k] => j = k
      /\ DOMAIN l.nodes = {s[k] : k \in 1 .. n}
      /\ \A k \in 1 .. n : s[k] \in DOMAIN l.nodes
      /\ l.head = IF n = 0 THEN 0 ELSE s[1]
      /\ l.tail = IF n = 0 THEN 0 ELSE s[n]
      /\ l.alloc \in Allocators /\ l.size \in Int
      /\ \A k \in 1 .. n : /\ l.nodes[s[k]].prev = IF k = 1 THEN 0 ELSE s[k - 1]
                           /\ l.nodes[s[k]].next = IF k = n THEN 0 ELSE s[k + 1]
  BY HoldsNodes
<1>2. /\ x \in DOMAIN l.nodes /\ n # 0
      /\ prev = IF p = 1 THEN 0 ELSE s[p - 1]
      /\ next = IF p = n THEN 0 ELSE s[p + 1]
      /\ (p # 1 => p - 1 \in 1 .. n) /\ (p # n => p + 1 \in 1 .. n)
  <2>1. (p # 1 => p - 1 \in 1 .. n) /\ (p # n => p + 1 \in 1 .. n) /\ n # 0 BY <1>1
  <2>2. /\ l.nodes[s[p]].prev = IF p = 1 THEN 0 ELSE s[p - 1]
        /\ l.nodes[s[p]].next = IF p = n THEN 0 ELSE s[p + 1]
        /\ s[p] \in DOMAIN l.nodes
    BY <1>1
  <2> QED BY <2>1, <2>2
<1>3. d = [e EXCEPT !.nodes = m, !.size = @ - 1] BY DEF unlink
<1> HIDE DEF x, prev, next, e, d
<1>4. (prev = Nil <=> p = 1) /\ (next = Nil <=> p = n)
      /\ (prev = Nil \/ prev \in DOMAIN l.nodes) /\ (next = Nil \/ next \in DOMAIN l.nodes)
  <2>1. p # 1 => prev = s[p - 1] /\ s[p - 1] # 0 /\ s[p - 1] \in DOMAIN l.nodes BY <1>1, <1>2
  <2>2. p # n => next = s[p + 1] /\ s[p + 1] # 0 /\ s[p + 1] \in DOMAIN l.nodes BY <1>1, <1>2
  <2> HIDE DEF h, b, P, Q, m
  <2> QED BY <1>2, <2>1, <2>2 DEF Nil
<1>5. Relinked(e, l, h, b, P, Q)
  <2>1. Linkable(l) /\ x \in DOMAIN l.nodes /\ prev = l.nodes[x].prev /\ next = l.nodes[x].next
    BY <1>1, <1>2 DEF prev, next
  <2>2. Relinked(Unlink(l, x), l, h, b, P, Q)
    <3>1. /\ h = IF prev = Nil THEN next ELSE l.head
          /\ b = IF next = Nil THEN prev ELSE l.tail
          /\ P = [y \in DOMAIN l.nodes |-> IF y = next THEN prev ELSE l.nodes[y].prev]
          /\ Q = [y \in DOMAIN l.nodes |-> IF y = prev THEN next ELSE l.nodes[y].next]
      OBVIOUS
    <3> HIDE DEF h, b, P, Q
    <3> QED BY <1>4, <2>1, <3>1, UnlinkIs
  <2> QED BY <2>2 DEF e
<1>6. /\ Linkable(e) /\ e.alloc = l.alloc /\ e.size = l.size /\ e.head = h /\ e.tail = b
      /\ DOMAIN e.nodes = DOMAIN l.nodes
      /\ \A y \in DOMAIN l.nodes : /\ e.nodes[y].value = l.nodes[y].value
                                   /\ e.nodes[y].prev = P[y] /\ e.nodes[y].next = Q[y]
  <2> HIDE DEF h, b, P, Q
  <2> QED BY <1>5 DEF Relinked
<1>7. m = [y \in DOMAIN l.nodes \ {x} |-> e.nodes[y]] BY <1>6 DEF Without
<1>8. /\ DOMAIN m = DOMAIN l.nodes \ {x} /\ m \in [DOMAIN m -> NodeType]
      /\ DOMAIN m \subseteq Nat \ {0}
      /\ \A y \in DOMAIN l.nodes : y # x => m[y] = e.nodes[y]
  <2> HIDE DEF m
  <2> QED BY <1>6, <1>7 DEF Linkable
<1> HIDE DEF m
<1>9. /\ Linkable(d) /\ d.alloc = l.alloc /\ d.size = l.size - 1 /\ d.nodes = m
      /\ d.head = h /\ d.tail = b
  <2> HIDE DEF h, b
  <2>1. e.size - 1 \in Int BY <1>1, <1>6
  <2>2. /\ d \in [alloc : Allocators, nodes : {d.nodes}, head : Nat, tail : Nat, size : Int]
        /\ d.alloc = e.alloc /\ d.size = e.size - 1 /\ d.nodes = m
        /\ d.head = e.head /\ d.tail = e.tail
    BY <1>3, <1>6, <2>1 DEF Linkable
  <2> QED BY <1>6, <1>8, <2>2 DEF Linkable
<1>10. CutOut(d, l, s, n, p)
  <2>1. d.head = (IF p = 1 THEN next ELSE l.head) /\ d.tail = IF p = n THEN prev ELSE l.tail
    BY <1>4, <1>9
  <2>2. \A y \in DOMAIN l.nodes : /\ P[y] = IF y = next THEN prev ELSE l.nodes[y].prev
                                  /\ Q[y] = IF y = prev THEN next ELSE l.nodes[y].next
    OBVIOUS
  <2> HIDE DEF P, Q, h, b
  <2>3. ASSUME NEW k \in 1 .. n, k # p
        PROVE  /\ d.nodes[s[k]].value = l.nodes[s[k]].value
               /\ d.nodes[s[k]].prev = IF k = p + 1 THEN prev ELSE l.nodes[s[k]].prev
               /\ d.nodes[s[k]].next = IF k = p - 1 THEN next ELSE l.nodes[s[k]].next
    <3>1. s[k] \in DOMAIN l.nodes /\ s[k] # x /\ s[k] # 0 BY <1>1, <2>3 DEF x
    <3>2. s[k] = next <=> k = p + 1
      <4>1. CASE p = n
        <5> next = 0 /\ k # p + 1 BY <1>1, <1>2, <4>1
        <5> QED BY <3>1
      <4>2. CASE p # n
        <5> next = s[p + 1] /\ p + 1 \in 1 .. n BY <1>2, <4>2
        <5> QED BY <1>1
      <4> QED BY <4>1, <4>2
    <3>3. s[k] = prev <=> k = p - 1
      <4>1. CASE p = 1
        <5> prev = 0 /\ k # p - 1 BY <1>1, <1>2, <4>1
        <5> QED BY <3>1
      <4>2. CASE p # 1
        <5> prev = s[p - 1] /\ p - 1 \in 1 .. n BY <1>2, <4>2
        <5> QED BY <1>1
      <4> QED BY <4>1, <4>2
    <3>4. d.nodes[s[k]] = e.nodes[s[k]] BY <1>8, <1>9, <3>1
    <3> QED BY <1>6, <2>2, <3>1, <3>2, <3>3, <3>4
  <2> QED BY <1>8, <1>9, <2>1, <2>3 DEF CutOut, x, prev, next
<1>11. Holds(d, Cut(s, n, p), Cut(t, n, p), n - 1) BY <1>9, <1>10, CutOutHolds
<1>12. Sits(d, Cut(t, n, p), n - 1) BY <1>11 DEF Sits
<1> QED BY <1>9, <1>12 DEF Becomes, d, x

-----------------------------------------------------------------------------
(* What a call reads of a list *)

LEMMA AsSequence ==
  ASSUME NEW S, NEW n \in Nat, NEW s \in [1 .. n -> S]
  PROVE  s \in Seq(S) /\ Len(s) = n /\ DOMAIN s = 1 .. n
OBVIOUS

\* List l keeps the sequence t.
Keeps(l, t) == t \in Seq(Values) /\ Sits(l, t, Len(t))

LEMMA SitsKeeps ==
  ASSUME NEW l, NEW t, NEW n, Sits(l, t, n)
  PROVE  Keeps(l, t) /\ Len(t) = n /\ n \in Nat
<1>1. PICK s : Holds(l, s, t, n) BY DEF Sits
<1>2. n \in Nat /\ t \in [1 .. n -> Values] BY <1>1, HoldsNodes
<1>3. t \in Seq(Values) /\ Len(t) = n BY <1>2, AsSequence
<1> QED BY <1>2, <1>3 DEF Keeps

LEMMA KeepsContents ==
  ASSUME NEW l, NEW t, Keeps(l, t)
  PROVE  /\ Contents(l) = t /\ Nodes(l) = Len(t) /\ Cleared(l) = Len(t) /\ Len(t) \in Nat
         /\ WellLinked(l) /\ l.alloc \in Allocators /\ l.size \in Int
         /\ IsFiniteSet(DOMAIN l.nodes)
<1> DEFINE n == Len(t)
<1>1. PICK s : Holds(l, s, t, n) BY DEF Keeps, Sits
<1>2. /\ n \in Nat /\ s \in [1 .. n -> Nat \ {0}] /\ t \in [1 .. n -> Values]
      /\ DOMAIN l.nodes = {s[k] : k \in 1 .. n}
      /\ l.alloc \in Allocators /\ l.size \in Int /\ Strung(l, s, n)
      /\ \A k \in 1 .. n : l.nodes[s[k]].value = t[k]
  BY <1>1, HoldsNodes
<1>3. Forward(l) = s /\ Backward(l) = Backwards(s, n) BY <1>2, StrungWalks
<1>4. Nodes(l) = n /\ IsFiniteSet(DOMAIN l.nodes) BY <1>2 DEF Nodes, Strung
<1> HIDE DEF n
<1>5. Len(s) = n /\ DOMAIN s = 1 .. n BY <1>2, AsSequence
<1>6. Backwards(s, n) \in [1 .. n -> Nat \ {0}]
  <2>1. \A k \in 1 .. n : n - k + 1 \in 1 .. n BY <1>2
  <2> QED BY <1>2, <2>1 DEF Backwards
<1>7. Len(Backwards(s, n)) = n BY <1>2, <1>6, AsSequence
<1>8. Contents(l) = [k \in 1 .. n |-> l.nodes[s[k]].value] BY <1>3, <1>5 DEF Contents
<1>9. Contents(l) = t BY <1>2, <1>8
<1>10. WellLinked(l)
  <2>1. Reverse(s) = Backwards(s, n) BY <1>5 DEF Reverse, Backwards
  <2>2. ToSet(s) = DOMAIN l.nodes BY <1>2, <1>5 DEF ToSet
  <2> QED BY <1>3, <1>4, <1>5, <2>1, <2>2 DEF WellLinked, Nodes
<1> QED BY <1>2, <1>3, <1>4, <1>7, <1>9, <1>10 DEF Cleared, n

\* node_at finds a node from either end, the right one if the size is right.
LEMMA NodeAtIs ==
  ASSUME NEW l, NEW s, NEW t, NEW n, Holds(l, s, t, n), l.size <= n,
         NEW idx \in 0 .. l.size - 1
  PROVE  /\ \E p \in 1 .. n : node_at(l, idx) = s[p] /\ (idx # 0 => p # 1)
         /\ l.size = n => idx + 1 \in 1 .. n /\ node_at(l, idx) = s[idx + 1]
         /\ node_at(l, idx) # Nil
<1>1. /\ n \in Nat /\ s \in [1 .. n -> Nat \ {0}] /\ l.size \in Int /\ Strung(l, s, n)
  BY HoldsNodes
<1>2. Forward(l) = s /\ Backward(l) = Backwards(s, n) BY <1>1, StrungWalks
<1>3. DOMAIN s = 1 .. n /\ DOMAIN Backwards(s, n) = 1 .. n BY <1>1 DEF Backwards
<1>4. CASE idx < l.size \div 2
  <2>1. idx + 1 \in 1 .. n
    <3> DEFINE z == l.size
    <3>1. z \in Nat /\ z <= n /\ idx \in Nat /\ idx <= z - 1 BY <1>1
    <3> QED BY <1>1, <3>1
  <2>2. node_at(l, idx) = s[idx + 1] BY <1>2, <1>3, <1>4, <2>1 DEF node_at
  <2>3. s[idx + 1] # Nil BY <1>1, <2>1 DEF Nil
  <2>4. idx # 0 => idx + 1 # 1 BY <1>1
  <2> QED BY <2>1, <2>2, <2>3, <2>4
<1>5. CASE ~ (idx < l.size \div 2)
  <2> DEFINE z == l.size
             k == z - idx
             p == n - k + 1
  <2>1. z \in Nat /\ z <= n /\ idx \in Nat /\ idx <= z - 1 BY <1>1
  <2> HIDE DEF z
  <2>2. k \in 1 .. n /\ p \in 1 .. n /\ (z = n => p = idx + 1) /\ (idx # 0 => p # 1)
    BY <1>1, <2>1
  <2>3. node_at(l, idx) = Backwards(s, n)[k]
    <3> HIDE DEF k, p
    <3> QED BY <1>2, <1>3, <1>5, <2>2 DEF node_at, z, k
  <2> HIDE DEF k
  <2>4. node_at(l, idx) = s[p] BY <2>2, <2>3 DEF Backwards
  <2> HIDE DEF p
  <2>5. s[p] # Nil BY <1>1, <2>2 DEF Nil
  <2> QED BY <2>2, <2>4, <2>5 DEF z
<1> QED BY <1>4, <1>5

LEMMA EmptyKeeps ==
  ASSUME NEW a \in Allocators
  PROVE  Keeps(Empty(a), << >>) /\ Empty(a).alloc = a /\ Empty(a).size = 0
<1> DEFINE e == Empty(a)
<1>1. /\ e \in [alloc : Allocators, nodes : {e.nodes}, head : Nat, tail : Nat, size : Int]
      /\ e.nodes = << >> /\ e.head = 0 /\ e.tail = 0 /\ e.alloc = a /\ e.size = 0
  BY DEF Empty, Nil
<1>2. DOMAIN e.nodes = {} /\ e.nodes \in [{} -> NodeType]
  <2>1. DOMAIN << >> = {} OBVIOUS
  <2>2. << >> \in [{} -> NodeType] BY <2>1
  <2> QED BY <1>1, <2>1, <2>2
<1>3. Linkable(e) BY <1>1, <1>2 DEF Linkable
<1> HIDE DEF e
<1>4. 1 .. 0 = {} /\ << >> \in [1 .. 0 -> Nat \ {0}] /\ << >> \in [1 .. 0 -> Values]
  OBVIOUS
<1>5. IsFiniteSet({}) /\ Cardinality({}) = 0 BY FS_EmptySet
<1>6. Strung(e, << >>, 0)
  <2>1. {<< >>[k] : k \in 1 .. 0} = {} BY <1>4
  <2> QED BY <1>1, <1>2, <1>4, <1>5, <2>1 DEF Strung
<1>7. Holds(e, << >>, << >>, 0) BY <1>3, <1>4, <1>6 DEF Holds
<1>8. Sits(e, << >>, 0) BY <1>7 DEF Sits
<1>9. Keeps(e, << >>) BY <1>8, SitsKeeps
<1> QED BY <1>1, <1>9 DEF e

LEMMA SameLinks ==
  ASSUME NEW l, NEW s, NEW n, Strung(l, s, n), NEW d, d.head = l.head, d.tail = l.tail,
         DOMAIN d.nodes = DOMAIN l.nodes,
         \A k \in 1 .. n : /\ d.nodes[s[k]].prev = l.nodes[s[k]].prev
                           /\ d.nodes[s[k]].next = l.nodes[s[k]].next
  PROVE  Strung(d, s, n)
BY DEF Strung

\* d is l with v in its node x.
ValueSet(d, l, x, v) == d = [l EXCEPT !.nodes[x].value = v]

LEMMA ValueSetHolds ==
  ASSUME NEW l, NEW s, NEW t, NEW n, Holds(l, s, t, n), NEW p \in 1 .. n, NEW v \in Values,
         NEW d, ValueSet(d, l, s[p], v)
  PROVE  Becomes(d, l, [t EXCEPT ![p] = v], n, l.size)
<1> DEFINE x == s[p]
           w == l.nodes
           m == [w EXCEPT ![x].value = v]
           u == [t EXCEPT ![p] = v]
<1>1. /\ Linkable(l) /\ Strung(l, s, n) /\ n \in Nat /\ t \in [1 .. n -> Values]
      /\ \A j, k \in 1 .. n : s[j] = s[k] => j = k
      /\ \A k \in 1 .. n : s[k] \in DOMAIN l.nodes
      /\ \A k \in 1 .. n : l.nodes[s[k]].value = t[k]
  BY HoldsNodes
<1>2. x \in DOMAIN w /\ w \in [DOMAIN w -> NodeType] /\ DOMAIN w \subseteq Nat \ {0}
  BY <1>1 DEF Linkable
<1> HIDE DEF x
<1>3. d \in [alloc : {l.alloc}, nodes : {m}, head : {l.head}, tail : {l.tail}, size : {l.size}]
      /\ l.alloc \in Allocators /\ l.head \in Nat /\ l.tail \in Nat /\ l.size \in Int
  BY <1>1 DEF Linkable, x, ValueSet
<1>4. /\ m \in [DOMAIN w -> NodeType] /\ DOMAIN m = DOMAIN w
      /\ \A y \in DOMAIN w : /\ m[y].prev = w[y].prev /\ m[y].next = w[y].next
                             /\ m[y].value = IF y = x THEN v ELSE w[y].value
  <2> HIDE DEF w
  <2> QED BY <1>2 DEF NodeType
<1> HIDE DEF m
<1>5. /\ Linkable(d) /\ d.nodes = m /\ d.head = l.head /\ d.tail = l.tail /\ d.size = l.size
      /\ d.alloc = l.alloc
  BY <1>2, <1>3, <1>4 DEF Linkable
<1>6. Strung(d, s, n)
  <2>1. \A k \in 1 .. n : /\ d.nodes[s[k]].prev = w[s[k]].prev
                          /\ d.nodes[s[k]].next = w[s[k]].next
    BY <1>1, <1>4, <1>5
  <2>2. DOMAIN d.nodes = DOMAIN w BY <1>4, <1>5
  <2>3. d.head = l.head /\ d.tail = l.tail BY <1>5
  <2> QED BY <1>1, <2>1, <2>2, <2>3, SameLinks
<1>7. u \in [1 .. n -> Values] /\ \A k \in 1 .. n : d.nodes[s[k]].value = u[k]
  <2>1. u \in [1 .. n -> Values] BY <1>1
  <2>2. \A k \in 1 .. n : u[k] = IF k = p THEN v ELSE t[k] BY <1>1
  <2> HIDE DEF u
  <2>3. \A k \in 1 .. n : s[k] = x <=> k = p BY <1>1 DEF x
  <2> QED BY <1>1, <1>4, <1>5, <2>1, <2>2, <2>3
<1> HIDE DEF u
<1>8. Holds(d, s, u, n) BY <1>5, <1>6, <1>7 DEF Holds
<1>9. Sits(d, u, n) BY <1>8 DEF Sits
<1> QED BY <1>5, <1>9 DEF Becomes, u

-----------------------------------------------------------------------------
(* Changed lists and the sequences they keep *)

PutIs(t, p, v) == Put(t, Len(t), p, v) = InsertAt(t, p, v)
CutIs(t, p) == Cut(t, Len(t), p) = RemoveAt(t, p)

LEMMA PutIsInsert ==
  ASSUME NEW t \in Seq(Values), NEW p \in 1 .. Len(t) + 1, NEW v \in Values
  PROVE  PutIs(t, p, v)
<1> DEFINE n == Len(t)
           u == InsertAt(t, p, v)
<1>1. Inserted(Values, u, t, p, v) BY InsertAtIs
<1> HIDE DEF u
<1>2. /\ u \in Seq(Values) /\ Len(u) = n + 1 /\ n \in Nat
      /\ \A x \in 1 .. n + 1 : u[x] = IF x < p THEN t[x] ELSE IF x = p THEN v ELSE t[x - 1]
  BY <1>1 DEF Inserted
<1> HIDE DEF n
<1>3. u = [x \in 1 .. n + 1 |-> u[x]] BY <1>2
<1>4. Put(t, n, p, v) = u BY <1>2, <1>3 DEF Put
<1> QED BY <1>4 DEF PutIs, n, u

LEMMA CutIsRemove ==
  ASSUME NEW t \in Seq(Values), NEW p \in 1 .. Len(t)
  PROVE  CutIs(t, p)
<1> DEFINE n == Len(t)
           u == RemoveAt(t, p)
<1>1. /\ u \in Seq(Values) /\ Len(u) = n - 1 /\ n \in Nat /\ p \in 1 .. n
      /\ \A x \in 1 .. n - 1 : u[x] = IF x < p THEN t[x] ELSE t[x + 1]
  BY RemoveAtIs
<1> HIDE DEF u, n
<1>2. u = [x \in 1 .. n - 1 |-> u[x]] BY <1>1
<1>3. Cut(t, n, p) = u BY <1>1, <1>2 DEF Cut
<1> QED BY <1>3 DEF CutIs, n, u

\* l has become d, with the same allocator, the values u and the size z.
Turned(d, l, u, z) == Keeps(d, u) /\ d.alloc = l.alloc /\ d.size = z

LEMMA AddedLastTurns ==
  ASSUME NEW l, NEW t, Keeps(l, t), NEW v \in Values
  PROVE  Turned(AddedLast(l, v), l, InsertAt(t, Len(t) + 1, v), l.size + 1)
<1> DEFINE n == Len(t)
           p == n + 1
           d == AddedLast(l, v)
<1>1. t \in Seq(Values) /\ Sits(l, t, n) BY DEF Keeps
<1>2. Becomes(d, l, Put(t, n, p, v), n + 1, l.size + 1) BY <1>1, AddedLastHolds
<1>3. p \in 1 .. n + 1 /\ p = Len(t) + 1 BY <1>1
<1> HIDE DEF d, p
<1>4. PutIs(t, p, v) BY <1>1, <1>3, PutIsInsert
<1>5. Becomes(d, l, InsertAt(t, p, v), n + 1, l.size + 1) BY <1>2, <1>4 DEF PutIs
<1>6. Keeps(d, InsertAt(t, p, v)) BY <1>5, SitsKeeps DEF Becomes
<1> QED BY <1>3, <1>5, <1>6 DEF Turned, Becomes, d

LEMMA AddedFirstTurns ==
  ASSUME NEW l, NEW t, Keeps(l, t), NEW v \in Values
  PROVE  Turned(AddedFirst(l, v), l, InsertAt(t, 1, v), l.size + 1)
<1> DEFINE n == Len(t)
           d == AddedFirst(l, v)
<1>1. t \in Seq(Values) /\ Sits(l, t, n) /\ 1 \in 1 .. n + 1 BY DEF Keeps
<1>2. Becomes(d, l, Put(t, n, 1, v), n + 1, l.size + 1) BY <1>1, AddedFirstHolds
<1> HIDE DEF d
<1>3. PutIs(t, 1, v) BY <1>1, PutIsInsert
<1>4. Becomes(d, l, InsertAt(t, 1, v), n + 1, l.size + 1) BY <1>2, <1>3 DEF PutIs
<1>5. Keeps(d, InsertAt(t, 1, v)) BY <1>4, SitsKeeps DEF Becomes
<1> QED BY <1>4, <1>5 DEF Turned, Becomes, d

LEMMA AddedBeforeTurns ==
  ASSUME NEW l, NEW s, NEW t, Keeps(l, t), Holds(l, s, t, Len(t)),
         NEW p \in 2 .. Len(t), NEW v \in Values
  PROVE  Turned(AddedBefore(l, s[p], v), l, InsertAt(t, p, v), l.size)
<1> DEFINE n == Len(t)
           d == AddedBefore(l, s[p], v)
<1>1. t \in Seq(Values) /\ p \in 1 .. n + 1 BY DEF Keeps
<1>2. Becomes(d, l, Put(t, n, p, v), n + 1, l.size) BY <1>1, AddedBeforeHolds
<1> HIDE DEF d
<1>3. PutIs(t, p, v) BY <1>1, PutIsInsert
<1>4. Becomes(d, l, InsertAt(t, p, v), n + 1, l.size) BY <1>2, <1>3 DEF PutIs
<1>5. Keeps(d, InsertAt(t, p, v)) BY <1>4, SitsKeeps DEF Becomes
<1> QED BY <1>4, <1>5 DEF Turned, Becomes, d

LEMMA UnlinkTurns ==
  ASSUME NEW l, NEW s, NEW t, Keeps(l, t), Holds(l, s, t, Len(t)), NEW p \in 1 .. Len(t)
  PROVE  Turned(unlink(l, s[p]), l, RemoveAt(t, p), l.size - 1)
<1> DEFINE n == Len(t)
           d == unlink(l, s[p])
<1>1. t \in Seq(Values) BY DEF Keeps
<1>2. Becomes(d, l, Cut(t, n, p), n - 1, l.size - 1) BY <1>1, UnlinkedHolds
<1> HIDE DEF d
<1>3. CutIs(t, p) BY <1>1, CutIsRemove
<1>4. Becomes(d, l, RemoveAt(t, p), n - 1, l.size - 1) BY <1>2, <1>3 DEF CutIs
<1>5. Keeps(d, RemoveAt(t, p)) BY <1>4, SitsKeeps DEF Becomes
<1> QED BY <1>4, <1>5 DEF Turned, Becomes, d

LEMMA ValueSetTurns ==
  ASSUME NEW l, NEW s, NEW t, Keeps(l, t), Holds(l, s, t, Len(t)), NEW p \in 1 .. Len(t),
         NEW v \in Values, NEW d, ValueSet(d, l, s[p], v)
  PROVE  Turned(d, l, [t EXCEPT ![p] = v], l.size)
<1>1. Becomes(d, l, [t EXCEPT ![p] = v], Len(t), l.size) BY ValueSetHolds
<1> DEFINE u == [t EXCEPT ![p] = v]
<1> HIDE DEF u
<1>2. Becomes(d, l, u, Len(t), l.size) BY <1>1 DEF u
<1>3. Keeps(d, u) BY <1>2, SitsKeeps DEF Becomes
<1> QED BY <1>2, <1>3 DEF Turned, Becomes, u

LEMMA SizeTurns ==
  ASSUME NEW l, NEW t, Keeps(l, t), NEW z \in Int, NEW d, d = [l EXCEPT !.size = z]
  PROVE  Turned(d, l, t, z)
<1>1. PICK s : Holds(l, s, t, Len(t)) BY DEF Keeps, Sits
<1>2. Linkable(l) BY <1>1 DEF Holds
<1>3. /\ Linkable(d) /\ d.alloc = l.alloc /\ d.nodes = l.nodes /\ d.head = l.head
      /\ d.tail = l.tail /\ d.size = z
  BY <1>2, SizeSet
<1>4. Holds(d, s, t, Len(t))
  <2>1. Strung(d, s, Len(t))
    <3>1. Strung(l, s, Len(t)) BY <1>1 DEF Holds
    <3> QED BY <1>3, <3>1, SameLinks
  <2> QED BY <1>1, <1>3, <2>1 DEF Holds
<1> QED BY <1>3, <1>4 DEF Turned, Keeps, Sits

-----------------------------------------------------------------------------
(* The accounts: the nodes of one list among those an allocator is owed *)

Share(l, a) == IF l.alloc = a THEN Nodes(l) ELSE 0
ShareOf(f, i, a) == IF i \in DOMAIN f THEN Share(f[i], a) ELSE 0

\* The nodes of list i that a handed out, and those of the other lists.
Part(f, i, a) == IF i \in DOMAIN f /\ f[i].alloc = a THEN {i} \X DOMAIN f[i].nodes ELSE {}
Rest(f, i, a) == {x \in Owned(f, a) : x[1] # i}

LEMMA OwnedIs ==
  ASSUME NEW f, NEW a, NEW x
  PROVE  x \in Owned(f, a) <=>
           \E j \in DOMAIN f : f[j].alloc = a /\ \E d \in DOMAIN f[j].nodes : x = << j, d >>
<1>1. x \in Owned(f, a) <=>
        \E j \in DOMAIN f : f[j].alloc = a /\ x \in {j} \X DOMAIN f[j].nodes
  BY DEF Owned
<1>2. ASSUME NEW j, NEW D
      PROVE  x \in {j} \X D <=> \E d \in D : x = << j, d >>
  OBVIOUS
<1> QED BY <1>1, <1>2

LEMMA OwnedSplits ==
  ASSUME NEW f, NEW i, NEW a
  PROVE  /\ Owned(f, a) = Rest(f, i, a) \cup Part(f, i, a)
         /\ Rest(f, i, a) \cap Part(f, i, a) = {}
<1>1. ASSUME NEW x PROVE x \in Part(f, i, a) <=> x \in Owned(f, a) /\ x[1] = i
  <2>1. x \in Part(f, i, a) <=>
          i \in DOMAIN f /\ f[i].alloc = a /\ \E d \in DOMAIN f[i].nodes : x = << i, d >>
    BY DEF Part
  <2>2. \A j, d : << j, d >>[1] = j OBVIOUS
  <2> QED BY <2>1, <2>2, OwnedIs
<1> QED BY <1>1 DEF Rest

LEMMA PartCounts ==
  ASSUME NEW f, NEW i, NEW a, i \in DOMAIN f => IsFiniteSet(DOMAIN f[i].nodes)
  PROVE  /\ IsFiniteSet(Part(f, i, a)) /\ Cardinality(Part(f, i, a)) = ShareOf(f, i, a)
         /\ ShareOf(f, i, a) \in Nat
<1>1. CASE i \in DOMAIN f /\ f[i].alloc = a
  <2> DEFINE D == DOMAIN f[i].nodes
  <2>1. IsFiniteSet(D) BY <1>1
  <2>2. Part(f, i, a) = {i} \X D /\ ShareOf(f, i, a) = Cardinality(D)
    BY <1>1 DEF Part, ShareOf, Share, Nodes
  <2> HIDE DEF D
  <2>3. IsFiniteSet({i}) /\ Cardinality({i}) = 1 BY FS_Singleton
  <2>4. IsFiniteSet({i} \X D) /\ Cardinality({i} \X D) = 1 * Cardinality(D)
    BY <2>1, <2>3, FS_Product
  <2>5. Cardinality(D) \in Nat BY <2>1, FS_CardinalityType
  <2> QED BY <2>2, <2>4, <2>5
<1>2. CASE ~ (i \in DOMAIN f /\ f[i].alloc = a)
  <2>1. Part(f, i, a) = {} /\ ShareOf(f, i, a) = 0 BY <1>2 DEF Part, ShareOf, Share
  <2> QED BY <2>1, FS_EmptySet
<1> QED BY <1>1, <1>2

LEMMA OwnedCounts ==
  ASSUME NEW f, NEW i, NEW a, i \in DOMAIN f => IsFiniteSet(DOMAIN f[i].nodes),
         IsFiniteSet(Rest(f, i, a))
  PROVE  /\ IsFiniteSet(Owned(f, a)) /\ Cardinality(Rest(f, i, a)) \in Nat
         /\ Cardinality(Owned(f, a)) = Cardinality(Rest(f, i, a)) + ShareOf(f, i, a)
<1> DEFINE R == Rest(f, i, a)
           P == Part(f, i, a)
<1>1. Owned(f, a) = R \cup P /\ R \cap P = {} BY OwnedSplits
<1>2. IsFiniteSet(P) /\ Cardinality(P) = ShareOf(f, i, a) /\ ShareOf(f, i, a) \in Nat
  BY PartCounts
<1>3. IsFiniteSet(R) OBVIOUS
<1> HIDE DEF R, P
<1>4. /\ IsFiniteSet(R \cup P)
      /\ Cardinality(R \cup P) = Cardinality(R) + Cardinality(P) - Cardinality(R \cap P)
  BY <1>2, <1>3, FS_Union
<1>5. Cardinality(R \cap P) = 0 BY <1>1, FS_EmptySet
<1>6. Cardinality(R) \in Nat BY <1>3, FS_CardinalityType
<1>7. Cardinality(R \cup P) = Cardinality(R) + ShareOf(f, i, a) BY <1>2, <1>4, <1>5, <1>6
<1> QED BY <1>1, <1>4, <1>6, <1>7 DEF R

-----------------------------------------------------------------------------
(* The invariant: live lists are sound chains, and nothing is leaked *)

\* A list never counts more elements than it has nodes; it counts fewer only
\* after a call in its middle.
Fits(l, t) ==
  /\ Keeps(l, t) /\ l.size \in Nat /\ l.size <= Len(t)
  /\ ~ Middles => l.size = Len(t)

Sound(f, o) ==
  /\ DOMAIN f \subseteq Lists /\ f = [i \in DOMAIN f |-> f[i]]
  /\ \A i \in DOMAIN f : Fits(f[i], Contents(f[i]))
  /\ o \in [Allocators -> Int]
  /\ \A a \in Allocators : IsFiniteSet(Owned(f, a)) /\ o[a] = Cardinality(Owned(f, a))

Inv == Sound(lists, out)

LEMMA FitsIs ==
  ASSUME NEW l, NEW t, Fits(l, t)
  PROVE  /\ Contents(l) = t /\ Nodes(l) = Len(t) /\ Cleared(l) = Len(t) /\ Len(t) \in Nat
         /\ t \in Seq(Values) /\ l.alloc \in Allocators /\ l.size \in Int
         /\ IsFiniteSet(DOMAIN l.nodes) /\ Fits(l, Contents(l))
<1>1. Keeps(l, t) BY DEF Fits
<1>2. /\ Contents(l) = t /\ Nodes(l) = Len(t) /\ Cleared(l) = Len(t) /\ Len(t) \in Nat
      /\ l.alloc \in Allocators /\ l.size \in Int /\ IsFiniteSet(DOMAIN l.nodes)
  BY <1>1, KeepsContents
<1>3. t \in Seq(Values) BY <1>1 DEF Keeps
<1> QED BY <1>2, <1>3

\* o2 is o with the nodes of list i, if it had any, given back, and those of k.
Rebooked(o2, o, f, i, k) ==
  /\ o2 \in [Allocators -> Int]
  /\ \A a \in Allocators : o2[a] = o[a] - ShareOf(f, i, a) + Share(k, a)

LEMMA PutSound ==
  ASSUME NEW f, NEW o, Sound(f, o), NEW i \in Lists, NEW k, NEW t, Fits(k, t),
         NEW o2, Rebooked(o2, o, f, i, k)
  PROVE  Sound(With(f, i, k), o2)
<1> DEFINE g == With(f, i, k)
<1>1. /\ DOMAIN g = DOMAIN f \cup {i} /\ g[i] = k /\ g = [j \in DOMAIN g |-> g[j]]
      /\ \A j \in DOMAIN f : j # i => g[j] = f[j]
  <2>1. g = [j \in DOMAIN g |-> g[j]] BY DEF With
  <2> QED BY <2>1 DEF With
<1>2. DOMAIN f \subseteq Lists /\ \A j \in DOMAIN f : Fits(f[j], Contents(f[j])) BY DEF Sound
<1>3. Fits(k, Contents(k)) /\ IsFiniteSet(DOMAIN k.nodes) BY FitsIs
<1> HIDE DEF g
<1>4. \A j \in DOMAIN g : Fits(g[j], Contents(g[j]))
  <2> TAKE j \in DOMAIN g
  <2>1. CASE j = i BY <1>1, <1>3, <2>1
  <2>2. CASE j # i
    <3>1. j \in DOMAIN f /\ g[j] = f[j] BY <1>1, <2>2
    <3> QED BY <1>2, <3>1
  <2> QED BY <2>1, <2>2
<1>5. DOMAIN g \subseteq Lists BY <1>1, <1>2
<1>6. ASSUME NEW a \in Allocators
      PROVE  IsFiniteSet(Owned(g, a)) /\ o2[a] = Cardinality(Owned(g, a))
  <2>1. Rest(g, i, a) = Rest(f, i, a)
    <3>1. \A j, d : << j, d >>[1] = j OBVIOUS
    <3>2. ASSUME NEW x, x[1] # i PROVE x \in Owned(g, a) <=> x \in Owned(f, a)
      <4>1. ASSUME NEW h PROVE x \in Owned(h, a) <=>
              \E j \in DOMAIN h : j # i /\ h[j].alloc = a /\ \E d \in DOMAIN h[j].nodes : x = << j, d >>
        BY <3>1, <3>2, OwnedIs
      <4>2. \A j : j # i => (j \in DOMAIN g <=> j \in DOMAIN f) /\ (j \in DOMAIN f => g[j] = f[j])
        BY <1>1
      <4>3. x \in Owned(g, a) <=>
              \E j \in DOMAIN g : j # i /\ g[j].alloc = a /\ \E d \in DOMAIN g[j].nodes : x = << j, d >>
        BY <4>1
      <4>4. x \in Owned(f, a) <=>
              \E j \in DOMAIN f : j # i /\ f[j].alloc = a /\ \E d \in DOMAIN f[j].nodes : x = << j, d >>
        BY <4>1
      <4> QED BY <4>2, <4>3, <4>4
    <3> QED BY <3>2 DEF Rest
  <2>2. IsFiniteSet(Owned(f, a)) /\ o[a] = Cardinality(Owned(f, a)) BY DEF Sound
  <2>3. IsFiniteSet(Rest(f, i, a))
    <3>1. Rest(f, i, a) \subseteq Owned(f, a) BY DEF Rest
    <3> QED BY <2>2, <3>1, FS_Subset
  <2>4. i \in DOMAIN f => IsFiniteSet(DOMAIN f[i].nodes)
    <3>1. i \in DOMAIN f => Fits(f[i], Contents(f[i])) BY <1>2
    <3> QED BY <3>1, FitsIs
  <2>5. /\ Cardinality(Rest(f, i, a)) \in Nat
        /\ Cardinality(Owned(f, a)) = Cardinality(Rest(f, i, a)) + ShareOf(f, i, a)
    BY <2>3, <2>4, OwnedCounts
  <2>6. i \in DOMAIN g => IsFiniteSet(DOMAIN g[i].nodes) BY <1>1, <1>3
  <2>7. /\ IsFiniteSet(Owned(g, a))
        /\ Cardinality(Owned(g, a)) = Cardinality(Rest(g, i, a)) + ShareOf(g, i, a)
    BY <2>1, <2>3, <2>6, OwnedCounts
  <2>8. ShareOf(g, i, a) = Share(k, a) BY <1>1 DEF ShareOf
  <2>9. ShareOf(f, i, a) \in Nat /\ ShareOf(g, i, a) \in Nat BY <2>4, <2>6, PartCounts
  <2>10. o2[a] = o[a] - ShareOf(f, i, a) + Share(k, a) BY DEF Rebooked
  <2> QED BY <2>1, <2>2, <2>5, <2>7, <2>8, <2>9, <2>10
<1>7. o2 \in [Allocators -> Int] BY DEF Rebooked
<1>8. Sound(g, o2) BY <1>1, <1>4, <1>5, <1>6, <1>7 DEF Sound
<1> QED BY <1>8 DEF g

-----------------------------------------------------------------------------
(* A chain made of the values of a sequence *)

Do(c, v) == IF c.ok THEN add1(c, AddedLast(c.list, v)) ELSE c

\* Call c has linked a list of allocator a that keeps t.
Making(c, a, t) ==
  /\ c \in [list : {c.list}, quota : Int, ok : BOOLEAN]
  /\ Keeps(c.list, t) /\ c.list.alloc = a /\ c.list.size = Len(t)

\* Call c after the first k values of s, unless one was refused before.
Made(c, a, s, k) == \E t : Making(c, a, t) /\ (c.ok => t = SubSeq(s, 1, k))

LEMMA ThrowIs ==
  ASSUME NEW c, c \in [list : {c.list}, quota : Int, ok : BOOLEAN]
  PROVE  /\ Throw(c) \in [list : {Throw(c).list}, quota : Int, ok : BOOLEAN]
         /\ Throw(c).list = c.list /\ ~ Throw(c).ok
<1> DEFINE d == Throw(c)
<1>1. d \in [list : {c.list}, quota : Int, ok : BOOLEAN] /\ d.ok = FALSE BY DEF Throw
<1> HIDE DEF d
<1>2. d.list = c.list BY <1>1
<1> QED BY <1>1, <1>2 DEF d

LEMMA Add1Is ==
  ASSUME NEW c, c \in [list : {c.list}, quota : Int, ok : BOOLEAN], c.ok, NEW l
  PROVE  /\ add1(c, l) \in [list : {add1(c, l).list}, quota : Int, ok : BOOLEAN]
         /\ add1(c, l).list = IF add1(c, l).ok THEN l ELSE c.list
<1>1. CASE c.quota = 0
  <2>1. add1(c, l) = Throw(c) BY <1>1 DEF add1
  <2> QED BY <2>1, ThrowIs
<1>2. CASE c.quota # 0
  <2> DEFINE d == [c EXCEPT !.quota = @ - 1, !.list = l]
  <2>1. add1(c, l) = d BY <1>2 DEF add1
  <2>2. d \in [list : {l}, quota : Int, ok : BOOLEAN] /\ d.ok
    <3> DEFINE T == {c.list, l}
               k == c.quota - 1
    <3>1. c \in [list : T, quota : Int, ok : BOOLEAN] /\ l \in T /\ k \in Int
      <4>1. c = [list |-> c.list, quota |-> c.quota, ok |-> c.ok] OBVIOUS
      <4>2. c.list \in T /\ l \in T /\ c.quota \in Int /\ c.ok \in BOOLEAN OBVIOUS
      <4> DEFINE x == c.list
                 y == c.quota
                 z == c.ok
      <4> HIDE DEF T, x, y, z
      <4>3. [list |-> x, quota |-> y, ok |-> z] \in [list : T, quota : Int, ok : BOOLEAN]
        BY <4>2 DEF x, y, z
      <4> QED BY <4>1, <4>2, <4>3 DEF x, y, z
    <3> HIDE DEF T, k
    <3>2. d \in [list : T, quota : Int, ok : BOOLEAN] /\ d.list = l /\ d.ok = c.ok
      <4>1. d = [c EXCEPT !.quota = k, !.list = l] BY DEF k
      <4> HIDE DEF d
      <4> QED BY <3>1, <4>1
    <3> HIDE DEF d
    <3>3. d = [list |-> d.list, quota |-> d.quota, ok |-> d.ok] BY <3>2
    <3> QED BY <3>2, <3>3
  <2> HIDE DEF d
  <2>3. d.list = l BY <2>2
  <2> QED BY <2>1, <2>2, <2>3
<1> QED BY <1>1, <1>2

LEMMA MakingStep ==
  ASSUME NEW s \in Seq(Values), NEW c, NEW a, NEW k \in 1 .. Len(s), Made(c, a, s, k - 1)
  PROVE  Made(Do(c, s[k]), a, s, k)
<1>1. PICK t : Making(c, a, t) /\ (c.ok => t = SubSeq(s, 1, k - 1)) BY DEF Made
<1>2. CASE ~ c.ok
  <2>1. Do(c, s[k]) = c BY <1>2 DEF Do
  <2> QED BY <1>1, <1>2, <2>1 DEF Made
<1>3. CASE c.ok
  <2> DEFINE v == s[k]
             l == AddedLast(c.list, v)
             d == add1(c, l)
             u == SubSeq(s, 1, k)
  <2>1. t \in Seq(Values) /\ Len(t) = k - 1 /\ v \in Values /\ u = Append(t, v)
        /\ u \in Seq(Values) /\ Len(u) = k
    BY <1>1, <1>3
  <2>2. Do(c, s[k]) = d BY <1>3 DEF Do
  <2> HIDE DEF v, u
  <2>3. u = InsertAt(t, Len(t) + 1, v) BY <2>1, AppendIsInsert
  <2>4. /\ c \in [list : {c.list}, quota : Int, ok : BOOLEAN]
        /\ Keeps(c.list, t) /\ c.list.alloc = a /\ c.list.size = Len(t)
    BY <1>1 DEF Making
  <2>5. Turned(l, c.list, u, c.list.size + 1) BY <2>1, <2>3, <2>4, AddedLastTurns
  <2> HIDE DEF l
  <2>6. /\ d \in [list : {d.list}, quota : Int, ok : BOOLEAN]
        /\ d.list = IF d.ok THEN l ELSE c.list
    BY <1>3, <2>4, Add1Is
  <2> HIDE DEF d
  <2>7. CASE d.ok
    <3>1. Keeps(l, u) /\ l.alloc = a /\ l.size = Len(u)
      <4>1. c.list.size + 1 = Len(u) BY <2>1, <2>4
      <4> QED BY <2>4, <2>5, <4>1 DEF Turned
    <3>2. Making(d, a, u) BY <2>6, <2>7, <3>1 DEF Making
    <3> QED BY <2>2, <3>2 DEF Made, u
  <2>8. CASE ~ d.ok
    <3>1. Making(d, a, t) BY <2>4, <2>6, <2>8 DEF Making
    <3> QED BY <2>2, <2>8, <3>1 DEF Made
  <2> QED BY <2>7, <2>8
<1> QED BY <1>2, <1>3

\* The recursion that a fold of the community modules chooses a solution of.
Folds(r, b, s, n) ==
  r = [z \in SUBSET (1 .. n) |-> IF z = {} THEN b ELSE Do(r[z \ {Max(z)}], s[Max(z)])]

LEMMA FoldsStep ==
  ASSUME NEW b, NEW es, NEW k \in Nat, NEW r, Folds(r, b, es, k)
  PROVE  \E t : Folds(t, b, es, k + 1)
<1> DEFINE t == [s \in SUBSET (1 .. k + 1) |->
                   IF k + 1 \in s THEN Do(r[s \ {k + 1}], es[k + 1]) ELSE r[s]]
<1>1. \A s \in SUBSET (1 .. k + 1) :
        t[s] = IF s = {} THEN b ELSE Do(t[s \ {Max(s)}], es[Max(s)])
  <2> TAKE s \in SUBSET (1 .. k + 1)
  <2>1. CASE k + 1 \in s
    <3>1. Max(s) = k + 1 BY <2>1, MaxOf
    <3>2. s \ {k + 1} \in SUBSET (1 .. k + 1) /\ k + 1 \notin s \ {k + 1} OBVIOUS
    <3>3. t[s \ {k + 1}] = r[s \ {k + 1}] BY <3>2
    <3>4. t[s] = Do(r[s \ {k + 1}], es[k + 1]) /\ s # {} BY <2>1
    <3> HIDE DEF t
    <3> QED BY <3>1, <3>3, <3>4
  <2>2. CASE k + 1 \notin s
    <3>1. s \in SUBSET (1 .. k) BY <2>2
    <3>2. t[s] = r[s] BY <2>2
    <3>3. CASE s = {} BY <3>1, <3>2, <3>3 DEF Folds
    <3>4. CASE s # {}
      <4>1. ASSUME NEW x PROVE s \ {x} \in SUBSET (1 .. k + 1) /\ k + 1 \notin s \ {x}
        <5>1. \A y \in 1 .. k : y \in 1 .. k + 1 /\ y # k + 1 OBVIOUS
        <5>2. \A y \in s : y \in 1 .. k + 1 /\ y # k + 1 BY <3>1, <5>1
        <5> QED BY <5>2, Zenon
      <4>2. t[s \ {Max(s)}] = r[s \ {Max(s)}]
        <5> s \ {Max(s)} \in SUBSET (1 .. k + 1) /\ k + 1 \notin s \ {Max(s)} BY <4>1
        <5> QED OBVIOUS
      <4>3. r[s] = Do(r[s \ {Max(s)}], es[Max(s)]) BY <3>1, <3>4 DEF Folds
      <4> HIDE DEF t
      <4> QED BY <3>2, <3>4, <4>2, <4>3
    <3> QED BY <3>3, <3>4
  <2> QED BY <2>1, <2>2
<1>2. t = [s \in SUBSET (1 .. k + 1) |-> t[s]] OBVIOUS
<1> HIDE DEF t
<1>3. Folds(t, b, es, k + 1) BY <1>1, <1>2 DEF Folds
<1> QED BY <1>3

LEMMA FoldsExist ==
  ASSUME NEW b, NEW es, NEW n \in Nat
  PROVE  \E r : Folds(r, b, es, n)
<1> DEFINE S == {k \in Nat : ~ \E r : Folds(r, b, es, k)}
<1> SUFFICES ASSUME S # {} PROVE FALSE BY DEF S
<1>1. PICK m \in S : \A k \in S : m <= k BY LeastNat
<1>2. m # 0
  <2> DEFINE r0 == [s \in SUBSET (1 .. 0) |-> b]
  <2>1. \A s \in SUBSET (1 .. 0) : s = {} /\ r0[s] = b OBVIOUS
  <2>2. Folds(r0, b, es, 0) BY <2>1 DEF Folds
  <2> QED BY <2>2, <1>1
<1>3. m - 1 \in Nat /\ m - 1 \notin S BY <1>1, <1>2
<1>4. PICK r : Folds(r, b, es, m - 1) BY <1>3
<1>5. \E t : Folds(t, b, es, (m - 1) + 1) BY <1>3, <1>4, FoldsStep
<1>6. (m - 1) + 1 = m BY <1>1
<1> QED BY <1>1, <1>5, <1>6

\* AddAll links the values one by one, until a node is refused.
LEMMA AddAllMakes ==
  ASSUME NEW s \in Seq(Values), NEW c, NEW a, Made(c, a, s, 0)
  PROVE  Made(AddAll(c, s), a, s, Len(s))
<1> DEFINE n == Len(s)
           Solves(t) == t = [z \in SUBSET (1 .. n) |->
                               IF z = {} THEN c
                               ELSE IF t[z \ {Max(z)}].ok
                                    THEN add1(t[z \ {Max(z)}],
                                              AddedLast(t[z \ {Max(z)}].list, s[Max(z)]))
                                    ELSE t[z \ {Max(z)}]]
           d == AddAll(c, s)
<1>1. n \in Nat /\ DOMAIN s = 1 .. n OBVIOUS
<1>2. \A x, v : Do(x, v) = IF x.ok THEN add1(x, AddedLast(x.list, v)) ELSE x BY DEF Do
<1> HIDE DEF n
<1>3. ASSUME NEW t PROVE Folds(t, c, s, n) <=> Solves(t) BY <1>2 DEF Folds
<1>4. PICK r0 : Folds(r0, c, s, n) BY <1>1, FoldsExist
<1> DEFINE r == CHOOSE t : Solves(t)
<1>5. Solves(r) BY <1>3, <1>4
<1>6. d = r[1 .. n] BY <1>1 DEF AddAll, FoldLeft, MapThenFoldSet
<1> HIDE DEF d
<1>7. Folds(r, c, s, n) BY <1>3, <1>5
<1> HIDE DEF r, Solves
<1> DEFINE S == {k \in 0 .. n : ~ Made(r[1 .. k], a, s, k)}
<1>8. r[1 .. 0] = c
  <2>1. 1 .. 0 = {} OBVIOUS
  <2> QED BY <1>7, <2>1 DEF Folds
<1>9. ASSUME NEW m \in 1 .. n PROVE r[1 .. m] = Do(r[1 .. (m - 1)], s[m])
  <2>1. m \in Nat /\ m \in 1 .. m /\ \A x \in 1 .. m : x \in 1 .. n BY <1>1
  <2>2. \A x : x \in (1 .. m) \ {m} <=> x \in 1 .. (m - 1) BY <2>1
  <2>3. (1 .. m) \ {m} = 1 .. (m - 1) BY <2>2, Zenon
  <2>4. Max(1 .. m) = m BY <2>1, MaxOf
  <2>5. 1 .. m \in SUBSET (1 .. n) /\ 1 .. m # {} BY <2>1
  <2> DEFINE w == 1 .. m
  <2>6. r[w] = Do(r[w \ {Max(w)}], s[Max(w)])
    <3> HIDE DEF w
    <3>1. w \in SUBSET (1 .. n) /\ w # {} BY <2>5 DEF w
    <3> QED BY <1>7, <3>1 DEF Folds
  <2> QED BY <2>3, <2>4, <2>6
<1>10. S = {}
  <2> SUFFICES ASSUME S # {} PROVE FALSE OBVIOUS
  <2>1. S \in SUBSET Nat BY <1>1
  <2>2. PICK m \in S : \A k \in S : m <= k
    <3> HIDE DEF S
    <3> QED BY <2>1, LeastNat
  <2>3. m # 0 BY <1>8, <2>2
  <2>4. m \in 1 .. n /\ m - 1 \in 0 .. n /\ m - 1 \notin S BY <1>1, <2>2, <2>3
  <2>5. Made(r[1 .. (m - 1)], a, s, m - 1) BY <2>4
  <2>6. m \in 1 .. Len(s) BY <2>4 DEF n
  <2>7. Made(Do(r[1 .. (m - 1)], s[m]), a, s, m) BY <2>5, <2>6, MakingStep
  <2>8. Made(r[1 .. m], a, s, m) BY <1>9, <2>4, <2>7
  <2> QED BY <2>2, <2>8
<1>11. Made(r[1 .. n], a, s, n) BY <1>1, <1>10
<1> QED BY <1>6, <1>11 DEF d, n

\* A new chain: of all the values, or of some of them before one was refused.
LEMMA ChainMade ==
  ASSUME NEW s \in Seq(Values), NEW a \in Allocators, NEW q \in Nat
  PROVE  \E t : /\ Keeps(AddAll(Call(Empty(a), q), s).list, t)
                /\ AddAll(Call(Empty(a), q), s).list.alloc = a
                /\ AddAll(Call(Empty(a), q), s).list.size = Len(t)
                /\ AddAll(Call(Empty(a), q), s).ok => t = s
<1> DEFINE c == Call(Empty(a), q)
           d == AddAll(c, s)
<1>1. c \in [list : {c.list}, quota : Int, ok : BOOLEAN] /\ c.list = Empty(a) BY DEF Call
<1>2. Keeps(Empty(a), << >>) /\ Empty(a).alloc = a /\ Empty(a).size = 0 BY EmptyKeeps
<1>3. Len(<< >>) = 0 /\ SubSeq(s, 1, 0) = << >> /\ SubSeq(s, 1, Len(s)) = s OBVIOUS
<1> HIDE DEF c
<1>4. Making(c, a, << >>) BY <1>1, <1>2, <1>3 DEF Making
<1>5. Made(c, a, s, 0) BY <1>3, <1>4 DEF Made
<1>6. Made(d, a, s, Len(s)) BY <1>5, AddAllMakes
<1> HIDE DEF d
<1>7. PICK t : Making(d, a, t) /\ (d.ok => t = SubSeq(s, 1, Len(s))) BY <1>6 DEF Made
<1>8. Keeps(d.list, t) /\ d.list.alloc = a /\ d.list.size = Len(t) /\ (d.ok => t = s)
  BY <1>3, <1>7 DEF Making
<1> QED BY <1>8 DEF c, d

-----------------------------------------------------------------------------
(* The contract *)

\* What the client sees: the values of each live list.
Cont(f) == [i \in DOMAIN f |-> Contents(f[i])]

IsPut(g, f, i, t) == g = [j \in DOMAIN f \cup {i} |-> IF j = i THEN t ELSE f[j]]

LEMMA PutCont ==
  ASSUME NEW f, NEW i, NEW k, NEW t, Fits(k, t)
  PROVE  IsPut(Cont(With(f, i, k)), Cont(f), i, t)
<1> DEFINE g == With(f, i, k)
<1>1. DOMAIN g = DOMAIN f \cup {i} /\ g[i] = k /\ \A j \in DOMAIN f : j # i => g[j] = f[j]
  BY DEF With
<1>2. Contents(k) = t BY FitsIs
<1> HIDE DEF g
<1>3. Cont(g) = [j \in DOMAIN Cont(f) \cup {i} |-> IF j = i THEN t ELSE Cont(f)[j]]
  <2>1. DOMAIN Cont(f) = DOMAIN f /\ \A j \in DOMAIN f : Cont(f)[j] = Contents(f[j]) BY DEF Cont
  <2>2. Cont(g) = [j \in DOMAIN f \cup {i} |-> Contents(g[j])] BY <1>1 DEF Cont
  <2>3. \A j \in DOMAIN f \cup {i} : Contents(g[j]) = IF j = i THEN t ELSE Cont(f)[j]
    BY <1>1, <1>2, <2>1
  <2> QED BY <2>1, <2>2, <2>3
<1> QED BY <1>3 DEF g, IsPut

C == INSTANCE ListContract WITH contents <- Cont(lists)

\* A step keeps the invariant and is one of the contract, or changes nothing.
Good == Inv' /\ (C!Next \/ UNCHANGED << Cont(lists), ret >>)

LEMMA LiveIs == C!live = live /\ \A i \in live : Cont(lists)[i] = Contents(lists[i])
BY DEF C!live, live, Cont

LEMMA LiveFits ==
  ASSUME Inv, NEW i \in live
  PROVE  /\ Fits(lists[i], Contents(lists[i])) /\ i \in Lists
         /\ Contents(lists[i]) \in Seq(Values) /\ Len(Contents(lists[i])) \in Nat
         /\ Nodes(lists[i]) = Len(Contents(lists[i]))
         /\ Cleared(lists[i]) = Len(Contents(lists[i]))
         /\ lists[i].alloc \in Allocators /\ lists[i].size \in Nat
         /\ lists[i].size <= Len(Contents(lists[i]))
         /\ ~ Middles => lists[i].size = Len(Contents(lists[i]))
         /\ Keeps(lists[i], Contents(lists[i]))
<1>1. Fits(lists[i], Contents(lists[i])) /\ i \in Lists BY DEF Inv, Sound, live
<1> QED BY <1>1, FitsIs DEF Fits

\* Which accounts a call on list i that leaves k there has to change.
LEMMA Booked ==
  ASSUME Inv, NEW i \in Lists, NEW k, NEW t, Fits(k, t),
         i \in live => k.alloc = lists[i].alloc,
         NEW n, n = Nodes(k) - (IF i \in live THEN Nodes(lists[i]) ELSE 0),
         Account(k.alloc, n)
  PROVE  Rebooked(out', out, lists, i, k)
<1> DEFINE a0 == k.alloc
           m == IF i \in live THEN Nodes(lists[i]) ELSE 0
           p == Nodes(k)
<1>1. out' = [out EXCEPT ![a0] = @ + n] BY DEF Account
<1>2. a0 \in Allocators /\ p \in Int /\ out \in [Allocators -> Int]
  BY FitsIs DEF Inv, Sound
<1>3. m \in Int /\ n = p - m
  <2>1. i \in live => Nodes(lists[i]) \in Int BY LiveFits
  <2> QED BY <2>1
<1>4. \A a : Share(k, a) = IF a = a0 THEN p ELSE 0 BY DEF Share
<1>5. \A a : ShareOf(lists, i, a) = IF a = a0 THEN m ELSE 0 BY DEF ShareOf, Share, live
<1> HIDE DEF a0, m, p
<1>6. n \in Int /\ \A a \in Allocators : out[a] \in Int BY <1>2, <1>3
<1>7. out' \in [Allocators -> Int]
  <2>1. out[a0] + n \in Int BY <1>2, <1>6
  <2> QED BY <1>1, <1>2, <2>1
<1>8. ASSUME NEW a \in Allocators PROVE out'[a] = out[a] - ShareOf(lists, i, a) + Share(k, a)
  <2>1. CASE a = a0
    <3>1. out'[a] = out[a] + n BY <1>1, <1>2, <2>1
    <3>2. out[a] + (p - m) = out[a] - m + p BY <1>2, <1>3, <1>6
    <3> QED BY <1>3, <1>4, <1>5, <2>1, <3>1, <3>2
  <2>2. CASE a # a0
    <3>1. out'[a] = out[a] BY <1>1, <1>2, <2>2
    <3>2. out[a] = out[a] - 0 + 0 BY <1>6
    <3> QED BY <1>4, <1>5, <2>2, <3>1, <3>2
  <2> QED BY <2>1, <2>2
<1> QED BY <1>7, <1>8 DEF Rebooked

\* A call that leaves k, which keeps t, at i.
LEMMA ChangeSets ==
  ASSUME Inv, NEW i \in Lists, NEW k, NEW t, Fits(k, t),
         i \in live => k.alloc = lists[i].alloc,
         NEW n, n = Nodes(k) - (IF i \in live THEN Nodes(lists[i]) ELSE 0),
         Account(k.alloc, n), lists' = With(lists, i, k)
  PROVE  Inv' /\ C!Set(i, t)
<1>1. Rebooked(out', out, lists, i, k) BY Booked
<1>2. Sound(With(lists, i, k), out') BY <1>1, PutSound DEF Inv
<1>3. IsPut(Cont(With(lists, i, k)), Cont(lists), i, t) BY PutCont
<1>4. Cont(lists)' = Cont(With(lists, i, k)) BY DEF Cont
<1> QED BY <1>2, <1>3, <1>4 DEF Inv, IsPut, C!Set, C!live

LEMMA CommitSets ==
  ASSUME Inv, NEW i \in Lists, NEW c, NEW t, Fits(c.list, t),
         i \in live => c.list.alloc = lists[i].alloc, NEW r, Commit(i, c, r)
  PROVE  Inv' /\ C!Set(i, t)
<1> DEFINE k == c.list
           n == Nodes(k) - (IF i \in live THEN Nodes(lists[i]) ELSE 0)
<1>1. lists' = With(lists, i, k) /\ Account(k.alloc, n) /\ Fits(k, t)
      /\ (i \in live => k.alloc = lists[i].alloc)
  BY DEF Commit
<1>2. n = Nodes(k) - (IF i \in live THEN Nodes(lists[i]) ELSE 0) OBVIOUS
<1> HIDE DEF k, n
<1> QED BY <1>1, <1>2, ChangeSets

LEMMA UnchangedInv == Inv /\ UNCHANGED << lists, out >> => Inv' /\ Cont(lists)' = Cont(lists)
BY DEF Inv, Sound, Cont

LEMMA SetSame ==
  ASSUME NEW i \in live, C!Set(i, Contents(lists[i]))
  PROVE  Cont(lists)' = Cont(lists)
<1>1. Cont(lists)' = [j \in C!live \cup {i} |-> IF j = i THEN Contents(lists[i]) ELSE Cont(lists)[j]]
  BY DEF C!Set
<1>2. C!live \cup {i} = DOMAIN lists /\ DOMAIN Cont(lists) = DOMAIN lists BY DEF C!live, live, Cont
<1>3. \A j \in DOMAIN lists : (IF j = i THEN Contents(lists[i]) ELSE Cont(lists)[j]) = Contents(lists[j])
  BY DEF Cont
<1> QED BY <1>1, <1>2, <1>3 DEF Cont

LEMMA ThrewGood == Inv' /\ ret' = "threw" /\ Cont(lists)' = Cont(lists) => Good
BY DEF Good, C!Next, C!Threw

\* The nodes of an unfinished chain are given back.
LEMMA UndoneGood ==
  ASSUME Inv, NEW c, ~ c.ok, NEW t, Keeps(c.list, t), Undone(c)
  PROVE  Good
<1> DEFINE a == c.list.alloc
           n == Nodes(c.list) - Cleared(c.list)
<1>1. n = 0 /\ a \in Allocators BY KeepsContents
<1>2. out' = [out EXCEPT ![a] = @ + n] /\ lists' = lists /\ ret' = "threw"
  BY DEF Undone, Account, Ends
<1>3. out \in [Allocators -> Int] BY DEF Inv, Sound
<1> HIDE DEF a, n
<1>4. out' = out
  <2>1. out[a] + n = out[a] BY <1>1, <1>3
  <2> QED BY <1>2, <1>3, <2>1
<1> QED BY <1>2, <1>4, UnchangedInv, ThrewGood

\* The chain is as long as its list is given out to be.
LEMMA NewChainFits ==
  ASSUME NEW l, NEW t, Keeps(l, t), l.size = Len(t)
  PROVE  Fits(l, t)
<1>1. Len(t) \in Nat BY KeepsContents
<1> QED BY <1>1 DEF Fits

LEMMA ConstructSets ==
  ASSUME Inv, NEW i \in Lists, NEW a \in Allocators, NEW s \in Seq(Values),
         NEW q \in Nat, construct(i, a, s, q)
  PROVE  (Inv' /\ ret' = "done" /\ C!Set(i, s)) \/ Good
<1> DEFINE c == AddAll(Call(Empty(a), q), s)
<1>1. i \notin live /\ IF c.ok THEN Commit(i, c, "done") ELSE Undone(c) BY DEF construct
<1>2. PICK t : Keeps(c.list, t) /\ c.list.alloc = a /\ c.list.size = Len(t) /\ (c.ok => t = s)
  BY ChainMade
<1> HIDE DEF c
<1>3. CASE c.ok
  <2>1. Commit(i, c, "done") BY <1>1, <1>3
  <2>2. Fits(c.list, s) BY <1>2, <1>3, NewChainFits
  <2>3. Inv' /\ C!Set(i, s) BY <1>1, <2>1, <2>2, CommitSets
  <2>4. ret' = "done" BY <1>3, <2>1 DEF Commit, Ends
  <2> QED BY <2>3, <2>4
<1>4. CASE ~ c.ok BY <1>1, <1>2, <1>4, UndoneGood
<1> QED BY <1>3, <1>4

LEMMA ConstructGood ==
  ASSUME LinkedListAssumption, Inv, NEW i \in Lists, NEW a \in Allocators, NEW s \in Initial,
         NEW q \in Nat, construct(i, a, s, q)
  PROVE  Good
<1>1. s \in Seq(Values) BY DEF LinkedListAssumption
<1>2. CASE Inv' /\ ret' = "done" /\ C!Set(i, s)
  <2>1. i \notin live BY DEF construct
  <2>2. C!Construct(i) BY <1>2, <2>1, LiveIs DEF C!Construct
  <2> QED BY <1>2, <2>2 DEF Good, C!Next
<1> QED BY <1>1, <1>2, ConstructSets

LEMMA CopyConstructGood ==
  ASSUME Inv, NEW i \in Lists, NEW j \in live, NEW q \in Nat, copy_construct(i, j, q)
  PROVE  Good
<1> DEFINE s == Contents(lists[j])
           a == lists[j].alloc
<1>1. s \in Seq(Values) /\ a \in Allocators BY LiveFits
<1>2. construct(i, a, s, q) BY DEF copy_construct
<1> HIDE DEF s, a
<1>3. CASE Inv' /\ ret' = "done" /\ C!Set(i, s)
  <2>1. i \notin live BY <1>2 DEF construct
  <2>2. C!CopyConstruct(i, j) /\ j \in C!live BY <1>3, <2>1, LiveIs DEF C!CopyConstruct, s
  <2> QED BY <1>3, <2>2 DEF Good, C!Next
<1> QED BY <1>1, <1>2, <1>3, ConstructSets

LEMMA ExceptIsWith ==
  ASSUME Inv, NEW i \in live, NEW k
  PROVE  [lists EXCEPT ![i] = k] = With(lists, i, k)
<1>1. lists = [j \in DOMAIN lists |-> lists[j]] /\ i \in DOMAIN lists BY DEF Inv, Sound, live
<1>2. DOMAIN lists \cup {i} = DOMAIN lists BY <1>1
<1> QED BY <1>1, <1>2 DEF With

\* The copy takes over the other list's size.
LEMMA CopyAssignGood ==
  ASSUME Inv, NEW i \in live, NEW j \in live, i # j, NEW q \in Nat, copy_assign(i, j, q)
  PROVE  Good
<1> DEFINE s == Contents(lists[j])
           a == lists[i].alloc
           z == lists[j].size
           c == AddAll(Call(Empty(a), q), s)
           k == [c.list EXCEPT !.size = z]
           n == Nodes(c.list) - Cleared(lists[i])
<1>1. s \in Seq(Values) /\ a \in Allocators /\ z \in Nat /\ z <= Len(s)
      /\ (~ Middles => z = Len(s)) /\ Len(s) \in Nat
  BY LiveFits
<1>2. /\ ~ c.ok => Undone(c)
      /\ c.ok => /\ Ends(c, "done") /\ lists' = [lists EXCEPT ![i] = k]
                 /\ Account(a, n)
  BY DEF copy_assign
<1>3. PICK t : Keeps(c.list, t) /\ c.list.alloc = a /\ (c.ok => t = s)
  <2> HIDE DEF s, a, z
  <2> QED BY <1>1, ChainMade
<1>4. Cleared(lists[i]) = Nodes(lists[i]) BY LiveFits
<1> HIDE DEF c
<1>5. CASE ~ c.ok BY <1>2, <1>3, <1>5, UndoneGood
<1>6. CASE c.ok
  <2>1. Turned(k, c.list, s, z) 
    <3> HIDE DEF s, z
    <3> QED BY <1>1, <1>3, <1>6, SizeTurns DEF z
  <2>2. lists' = With(lists, i, k)
    <3> HIDE DEF k
    <3> QED BY <1>2, <1>6, ExceptIsWith
  <2> HIDE DEF k, s, a, z
  <2>3. Fits(k, s) /\ k.alloc = a
    <3>1. Keeps(k, s) /\ k.alloc = a /\ k.size = z BY <1>3, <2>1 DEF Turned
    <3> QED BY <1>1, <3>1 DEF Fits
  <2>4. Nodes(k) = Nodes(c.list)
    <3>1. Nodes(k) = Len(s) BY <2>3, FitsIs
    <3>2. Nodes(c.list) = Len(s) BY <1>3, <1>6, KeepsContents
    <3> QED BY <3>1, <3>2
  <2>5. n = Nodes(k) - (IF i \in live THEN Nodes(lists[i]) ELSE 0) BY <1>4, <2>4
  <2>6. Account(k.alloc, n) /\ i \in Lists /\ (i \in live => k.alloc = lists[i].alloc)
    BY <1>2, <1>6, <2>3, LiveFits DEF a
  <2> HIDE DEF n
  <2>7. Inv' /\ C!Set(i, s) BY <2>2, <2>3, <2>5, <2>6, ChangeSets
  <2>8. ret' = "done" BY <1>2, <1>6 DEF Ends
  <2>9. C!CopyAssign(i, j) /\ i \in C!live /\ j \in C!live
    BY <2>7, <2>8, LiveIs DEF C!CopyAssign, s
  <2> QED BY <2>7, <2>9 DEF Good, C!Next
<1> QED BY <1>5, <1>6

\* A call that links one node, or throws and has changed nothing.
LEMMA AddedGood ==
  ASSUME Inv, NEW i \in live, NEW v \in Values, NEW p \in 1 .. Len(Contents(lists[i])) + 1,
         NEW l, NEW z \in Nat, Turned(l, lists[i], InsertAt(Contents(lists[i]), p, v), z),
         z <= Len(Contents(lists[i])) + 1, ~ Middles => z = Len(Contents(lists[i])) + 1,
         NEW q \in Nat, Commit(i, add1(Call(lists[i], q), l), "done")
  PROVE  Good
<1> DEFINE s == Contents(lists[i])
           t == InsertAt(s, p, v)
           e == Call(lists[i], q)
           c == add1(e, l)
<1>1. e \in [list : {e.list}, quota : Int, ok : BOOLEAN] /\ e.ok /\ e.list = lists[i] BY DEF Call
<1>2. Fits(lists[i], s) /\ i \in Lists /\ s \in Seq(Values) /\ Len(s) \in Nat BY LiveFits
<1>3. Commit(i, c, "done") OBVIOUS
<1>4. Len(t) = Len(s) + 1
  <2> HIDE DEF s
  <2>1. Inserted(Values, InsertAt(s, p, v), s, p, v) BY <1>2, InsertAtIs DEF s
  <2> QED BY <2>1 DEF Inserted
<1> HIDE DEF e
<1>5. c.list = IF c.ok THEN l ELSE lists[i] BY <1>1, Add1Is
<1> HIDE DEF c
<1>6. CASE c.ok
  <2>1. Fits(l, t) /\ l.alloc = lists[i].alloc
    <3>1. Keeps(l, t) /\ l.alloc = lists[i].alloc /\ l.size = z BY DEF Turned
    <3> HIDE DEF t
    <3> QED BY <1>4, <3>1 DEF Fits
  <2> HIDE DEF t
  <2>2. Fits(c.list, t) /\ c.list.alloc = lists[i].alloc BY <1>5, <1>6, <2>1
  <2>3. Inv' /\ C!Set(i, t) BY <1>2, <1>3, <2>2, CommitSets
  <2>4. ret' = "done" BY <1>3, <1>6 DEF Commit, Ends
  <2>5. p - 1 \in 0 .. Len(s) /\ (p - 1) + 1 = p BY <1>2
  <2>6. C!Add(i, p - 1, v)
    <3>1. Cont(lists)[i] = s BY LiveIs
    <3>2. t = C!InsertAt(s, p, v) BY DEF t, InsertAt, C!InsertAt
    <3> QED BY <2>3, <2>4, <2>5, <3>1, <3>2 DEF C!Add
  <2>7. i \in C!live /\ p - 1 \in 0 .. Len(Cont(lists)[i]) BY <2>5, LiveIs
  <2> QED BY <2>3, <2>6, <2>7 DEF Good, C!Next
<1>7. CASE ~ c.ok
  <2>1. Fits(c.list, s) /\ c.list.alloc = lists[i].alloc BY <1>2, <1>5, <1>7
  <2> HIDE DEF s
  <2>2. Inv' /\ C!Set(i, s) BY <1>2, <1>3, <2>1, CommitSets
  <2>3. ret' = "threw" BY <1>3, <1>7 DEF Commit, Ends
  <2>4. Cont(lists)' = Cont(lists) BY <2>2, SetSame DEF s
  <2> QED BY <2>2, <2>3, <2>4, ThrewGood
<1> QED BY <1>6, <1>7

\* The places of a chain that a call goes by.
LEMMA LiveStrung ==
  ASSUME Inv, NEW i \in live
  PROVE  \E s : /\ Holds(lists[i], s, Contents(lists[i]), Len(Contents(lists[i])))
                /\ Forward(lists[i]) = s /\ s \in [1 .. Len(Contents(lists[i])) -> Nat \ {0}]
                /\ Len(Contents(lists[i])) > 0 =>
                     /\ lists[i].head = s[1]
                     /\ lists[i].tail = s[Len(Contents(lists[i]))]
<1> DEFINE l == lists[i]
           t == Contents(l)
           n == Len(t)
<1>1. Keeps(l, t) BY LiveFits
<1> HIDE DEF l, t, n
<1>2. PICK s : Holds(l, s, t, n) BY <1>1 DEF Keeps, Sits, n
<1>3. n \in Nat /\ s \in [1 .. n -> Nat \ {0}] /\ Strung(l, s, n) BY <1>2, HoldsNodes
<1>4. Forward(l) = s BY <1>3, StrungWalks
<1>5. n > 0 => l.head = s[1] /\ l.tail = s[n] BY <1>3 DEF Strung
<1> QED BY <1>2, <1>3, <1>4, <1>5 DEF l, t, n

LEMMA AddLastGood ==
  ASSUME Inv, NEW i \in live, NEW v \in Values, NEW q \in Nat, add_last(i, v, q)
  PROVE  Good
<1> DEFINE l == lists[i]
           s == Contents(l)
           n == Len(s)
           z == l.size + 1
           d == AddedLast(l, v)
<1>1. Keeps(l, s) /\ n \in Nat /\ l.size \in Nat /\ l.size <= n /\ (~ Middles => l.size = n)
  BY LiveFits
<1>2. Turned(d, l, InsertAt(s, n + 1, v), z) BY <1>1, AddedLastTurns
<1>3. Commit(i, add1(Call(l, q), d), "done") BY DEF add_last
<1>4. z \in Nat /\ z <= n + 1 /\ (~ Middles => z = n + 1) /\ n + 1 \in 1 .. n + 1 BY <1>1
<1> HIDE DEF d, z
<1> QED BY <1>2, <1>3, <1>4, AddedGood

LEMMA AddFirstGood ==
  ASSUME Inv, NEW i \in live, NEW v \in Values, NEW q \in Nat, add_first(i, v, q)
  PROVE  Good
<1> DEFINE l == lists[i]
           s == Contents(l)
           n == Len(s)
           z == l.size + 1
           d == AddedFirst(l, v)
<1>1. Keeps(l, s) /\ n \in Nat /\ l.size \in Nat /\ l.size <= n /\ (~ Middles => l.size = n)
  BY LiveFits
<1>2. Turned(d, l, InsertAt(s, 1, v), z) BY <1>1, AddedFirstTurns
<1>3. Commit(i, add1(Call(l, q), d), "done") BY DEF add_first
<1>4. z \in Nat /\ z <= n + 1 /\ (~ Middles => z = n + 1) /\ 1 \in 1 .. n + 1 BY <1>1
<1> HIDE DEF d, z
<1> QED BY <1>2, <1>3, <1>4, AddedGood

LEMMA AddAtGood ==
  ASSUME Inv, NEW i \in live, NEW v \in Values, NEW idx \in 0 .. lists[i].size,
         NEW q \in Nat, add_at(i, idx, v, q)
  PROVE  Good
<1> DEFINE l == lists[i]
           t == Contents(l)
           n == Len(t)
           at == node_at(l, idx)
<1>1. Keeps(l, t) /\ n \in Nat /\ l.size \in Nat /\ l.size <= n BY LiveFits
<1>2. CASE idx = l.size
  <2>1. add_last(i, v, q) BY <1>2 DEF add_at
  <2> QED BY <2>1, AddLastGood
<1>3. CASE idx # l.size /\ idx = 0
  <2>1. add_first(i, v, q) BY <1>3 DEF add_at
  <2> QED BY <2>1, AddFirstGood
<1>4. CASE idx # l.size /\ idx # 0
  <2>1. Middles /\ Commit(i, add1(Call(l, q), AddedBefore(l, at, v)), "done")
    BY <1>4 DEF add_at
  <2>2. PICK s : Holds(l, s, t, n) BY LiveStrung
  <2>3. idx \in 0 .. l.size - 1 BY <1>1, <1>4
  <2> HIDE DEF l, t, n, at
  <2>4. PICK p \in 1 .. n : node_at(l, idx) = s[p] /\ (idx # 0 => p # 1)
    BY <1>1, <2>2, <2>3, NodeAtIs
  <2>5. p \in 2 .. n /\ at = s[p] /\ p \in 1 .. n + 1 BY <1>1, <1>4, <2>4 DEF at
  <2> DEFINE d == AddedBefore(l, s[p], v)
  <2>6. Turned(d, l, InsertAt(t, p, v), l.size)
    <3>1. Holds(l, s, t, Len(t)) /\ p \in 2 .. Len(t) BY <2>2, <2>5 DEF n
    <3> QED BY <1>1, <3>1, AddedBeforeTurns
  <2>7. Commit(i, add1(Call(l, q), d), "done") BY <2>1, <2>5
  <2>8. l.size <= n + 1 BY <1>1
  <2> DEFINE z == l.size
  <2>9. z \in Nat /\ z <= n + 1 /\ (~ Middles => z = n + 1) /\ Turned(d, l, InsertAt(t, p, v), z)
    BY <1>1, <2>1, <2>6, <2>8
  <2> HIDE DEF d, z
  <2> QED BY <2>5, <2>7, <2>9, AddedGood DEF l, t, n
<1> QED BY <1>2, <1>3, <1>4

\* A list that has lost the element p.
LEMMA DeletedSets ==
  ASSUME Inv, NEW i \in live, NEW p \in 1 .. Len(Contents(lists[i])),
         NEW l, NEW z, Turned(l, lists[i], RemoveAt(Contents(lists[i]), p), z),
         z < Len(Contents(lists[i])), ~ Middles => z = Len(Contents(lists[i])) - 1,
         NEW r, Deleted(i, l, r), z \in Nat
  PROVE  Inv' /\ ret' = r /\ C!Set(i, RemoveAt(Contents(lists[i]), p))
<1> DEFINE s == Contents(lists[i])
           t == RemoveAt(s, p)
           n == Nodes(l) - Nodes(lists[i])
<1>1. i \in Lists /\ s \in Seq(Values) /\ Len(s) \in Nat BY LiveFits
<1>2. Len(t) = Len(s) - 1
  <2> HIDE DEF s
  <2> QED BY <1>1, RemoveAtIs DEF s
<1>3. Fits(l, t) /\ l.alloc = lists[i].alloc
  <2>1. Keeps(l, t) /\ l.alloc = lists[i].alloc /\ l.size = z BY DEF Turned
  <2> HIDE DEF t
  <2> QED BY <1>1, <1>2, <2>1 DEF Fits
<1> HIDE DEF t
<1>4. lists' = With(lists, i, l) /\ ret' = r /\ Account(l.alloc, n)
  BY ExceptIsWith DEF Deleted
<1>5. n = Nodes(l) - (IF i \in live THEN Nodes(lists[i]) ELSE 0) OBVIOUS
<1> HIDE DEF n
<1>6. Inv' /\ C!Set(i, t) BY <1>1, <1>3, <1>4, <1>5, ChangeSets
<1> QED BY <1>4, <1>6 DEF t

LEMMA DeletedGood ==
  ASSUME Inv, NEW i \in live, NEW p \in 1 .. Len(Contents(lists[i])),
         Inv', ret' = "done", C!Set(i, RemoveAt(Contents(lists[i]), p))
  PROVE  Good
<1>1. p - 1 \in 0 .. Len(Contents(lists[i])) - 1 /\ (p - 1) + 1 = p BY LiveFits
<1>2. C!Delete(i, p - 1) BY <1>1, LiveIs DEF C!Delete, C!RemoveAt, RemoveAt
<1>3. i \in C!live /\ p - 1 \in 0 .. Len(Cont(lists)[i]) - 1 BY <1>1, LiveIs
<1> QED BY <1>2, <1>3 DEF Good, C!Next

\* The node of element p is unlinked.
LEMMA UnlinkSets ==
  ASSUME Inv, NEW i \in live, NEW p \in 1 .. Len(Contents(lists[i])),
         NEW x, x = Forward(lists[i])[p], NEW r, Deleted(i, unlink(lists[i], x), r),
         lists[i].size > 0
  PROVE  Inv' /\ ret' = r /\ C!Set(i, RemoveAt(Contents(lists[i]), p))
<1> DEFINE l == lists[i]
           t == Contents(l)
           n == Len(t)
           z == l.size - 1
           d == unlink(l, x)
<1>1. Keeps(l, t) /\ n \in Nat /\ l.size \in Nat /\ l.size <= n /\ (~ Middles => l.size = n)
  BY LiveFits
<1>2. PICK s : Holds(l, s, t, n) /\ Forward(l) = s BY LiveStrung
<1>3. Turned(d, l, RemoveAt(t, p), z)
  <2>1. Holds(l, s, t, Len(t)) /\ p \in 1 .. Len(t) /\ x = s[p] BY <1>2
  <2> HIDE DEF l, t, n
  <2> QED BY <1>1, <2>1, UnlinkTurns
<1>4. z \in Nat /\ z < n /\ (~ Middles => z = n - 1) BY <1>1
<1>5. Deleted(i, d, r) OBVIOUS
<1> HIDE DEF d, z
<1> QED BY <1>3, <1>4, <1>5, DeletedSets

LEMMA RemoveEndGood ==
  ASSUME Inv, NEW i \in live, remove_first(i) \/ remove_last(i)
  PROVE  Good
<1> DEFINE l == lists[i]
           n == Len(Contents(l))
<1>1. n \in Nat /\ l.size \in Nat /\ l.size <= n /\ l.size > 0
  BY LiveFits DEF remove_first, remove_last
<1>2. l.head = Forward(l)[1] /\ l.tail = Forward(l)[n] BY <1>1, LiveStrung
<1>3. 1 \in 1 .. n /\ n \in 1 .. n BY <1>1
<1>4. CASE remove_first(i)
  <2>1. Deleted(i, unlink(l, l.head), "done") BY <1>4 DEF remove_first
  <2>2. Inv' /\ ret' = "done" /\ C!Set(i, RemoveAt(Contents(l), 1))
    BY <1>1, <1>2, <1>3, <2>1, UnlinkSets
  <2> QED BY <1>3, <2>2, DeletedGood
<1>5. CASE remove_last(i)
  <2>1. Deleted(i, unlink(l, l.tail), "done") BY <1>5 DEF remove_last
  <2>2. Inv' /\ ret' = "done" /\ C!Set(i, RemoveAt(Contents(l), n))
    BY <1>1, <1>2, <1>3, <2>1, UnlinkSets
  <2> QED BY <1>3, <2>2, DeletedGood
<1> QED BY <1>4, <1>5

LEMMA RemoveAtGood ==
  ASSUME Inv, NEW i \in live, NEW idx \in 0 .. lists[i].size - 1, remove_at(i, idx)
  PROVE  Good
<1> DEFINE l == lists[i]
           t == Contents(l)
           n == Len(t)
           at == node_at(l, idx)
           e == unlink(l, at)
           d == [e EXCEPT !.size = @ - 1]
<1>1. Keeps(l, t) /\ n \in Nat /\ l.size \in Nat /\ l.size <= n BY LiveFits
<1>2. CASE idx = 0 \/ idx = l.size - 1
  <2>1. remove_first(i) \/ remove_last(i) BY <1>2 DEF remove_at
  <2> QED BY <2>1, RemoveEndGood
<1>3. CASE ~ (idx = 0 \/ idx = l.size - 1)
  <2>1. Middles /\ Deleted(i, d, "done") BY <1>3 DEF remove_at
  <2>2. PICK s : Holds(l, s, t, n) BY LiveStrung
  <2> HIDE DEF l, t, n, e
  <2>3. PICK p \in 1 .. n : at = s[p]
    <3>1. idx \in 0 .. l.size - 1 BY DEF l
    <3> QED BY <1>1, <2>2, <3>1, NodeAtIs
  <2> HIDE DEF at
  <2>4. Turned(e, l, RemoveAt(t, p), l.size - 1)
    <3>1. Holds(l, s, t, Len(t)) /\ p \in 1 .. Len(t) BY <2>2 DEF n
    <3> QED BY <1>1, <2>3, <3>1, UnlinkTurns DEF e
  <2> DEFINE z == l.size - 2
             u == RemoveAt(t, p)
  <2>5. Turned(d, l, u, z)
    <3>1. Keeps(e, u) /\ e.alloc = l.alloc /\ e.size = l.size - 1 BY <2>4 DEF Turned
    <3>2. z \in Int /\ e.size - 1 = z BY <1>1, <3>1
    <3> HIDE DEF z, u
    <3>3. d = [e EXCEPT !.size = z] BY <3>2
    <3> HIDE DEF d
    <3>4. Turned(d, e, u, z) BY <3>1, <3>2, <3>3, SizeTurns
    <3> QED BY <3>1, <3>4 DEF Turned
  <2>6. z < n /\ z \in Nat
    <3>1. idx \in 1 .. l.size - 2 BY <1>1, <1>3 DEF l
    <3> QED BY <1>1, <3>1
  <2> HIDE DEF d, z
  <2>7. Inv' /\ ret' = "done" /\ C!Set(i, RemoveAt(Contents(lists[i]), p))
    BY <2>1, <2>5, <2>6, DeletedSets DEF l, t, n
  <2>8. p \in 1 .. Len(Contents(lists[i])) BY DEF n, t, l
  <2> QED BY <2>7, <2>8, DeletedGood
<1> QED BY <1>2, <1>3

\* What remove finds is the first node with v.
LEMMA FoundIs ==
  ASSUME NEW s \in Seq(Values), NEW v, NEW found, found = SelectInSeq(s, LAMBDA x : x = v)
  PROVE  /\ C!Contains(s, v) =>
              found \in 1 .. Len(s) /\ found # 0 /\ C!RemoveFirst(s, v) = RemoveAt(s, found)
         /\ ~ C!Contains(s, v) => found = 0 /\ C!RemoveFirst(s, v) = s
<1> DEFINE I == {x \in 1 .. Len(s) : s[x] = v}
<1>1. found = IF I # {} THEN Min(I) ELSE 0 BY DEF SelectInSeq, SelectInSubSeq
<1>2. C!SelectInSeq(s, LAMBDA w : w = v) = IF I # {} THEN Min(I) ELSE 0
  BY DEF C!SelectInSeq, C!SelectInSubSeq, C!Min, Min
<1>3. C!Contains(s, v) <=> I # {} BY DEF C!Contains
<1>4. ASSUME I # {} PROVE Min(I) \in 1 .. Len(s)
  <2>1. I \in SUBSET Nat /\ I \subseteq 1 .. Len(s) OBVIOUS
  <2> HIDE DEF I
  <2>2. PICK m \in I : \A x \in I : m <= x BY <1>4, <2>1, LeastNat
  <2>3. Min(I) \in I BY <2>2 DEF Min
  <2> QED BY <2>1, <2>3
<1>5. C!RemoveFirst(s, v) = IF I # {} THEN RemoveAt(s, IF I # {} THEN Min(I) ELSE 0) ELSE s
  <2>1. (\E x \in 1 .. Len(s) : s[x] = v) <=> I # {} OBVIOUS
  <2> HIDE DEF I
  <2> QED BY <1>2, <2>1 DEF C!RemoveFirst, C!RemoveAt, RemoveAt
<1>6. 0 \notin 1 .. Len(s) OBVIOUS
<1> HIDE DEF I
<1> QED BY <1>1, <1>3, <1>4, <1>5, <1>6

LEMMA RemoveGood ==
  ASSUME Inv, NEW i \in live, NEW v \in Values, remove(i, v)
  PROVE  Good
<1> DEFINE s == Contents(lists[i])
           found == SelectInSeq(s, LAMBDA x : x = v)
           x == Forward(lists[i])[found]
           t == C!RemoveFirst(s, v)
           has == C!Contains(s, v)
<1>1. IF found = 0 THEN ret' = "no" /\ UNCHANGED << lists, out >>
      ELSE lists[i].size > 0 /\ Deleted(i, unlink(lists[i], x), "yes")
  BY DEF remove
<1>2. s \in Seq(Values) BY LiveFits
<1>3. /\ has => found \in 1 .. Len(s) /\ found # 0 /\ t = RemoveAt(s, found)
      /\ ~ has => found = 0 /\ t = s
  <2> HIDE DEF s
  <2> QED BY <1>2, FoundIs
<1> HIDE DEF found, t, s, has
<1>4. CASE has
  <2>1. found \in 1 .. Len(s) /\ found # 0 /\ t = RemoveAt(s, found) BY <1>3, <1>4
  <2>2. /\ lists[i].size > 0 /\ Deleted(i, unlink(lists[i], x), "yes")
        /\ x = Forward(lists[i])[found]
    BY <1>1, <2>1
  <2> HIDE DEF x
  <2>3. Inv' /\ ret' = "yes" /\ C!Set(i, RemoveAt(s, found)) BY <2>1, <2>2, UnlinkSets DEF s
  <2>4. C!RemoveValue(i, v) BY <1>4, <2>1, <2>3, LiveIs DEF C!RemoveValue, s, t, has
  <2>5. i \in C!live BY LiveIs
  <2> QED BY <2>3, <2>4, <2>5 DEF Good, C!Next
<1>5. CASE ~ has
  <2>1. ret' = "no" /\ UNCHANGED << lists, out >> /\ t = s BY <1>1, <1>3, <1>5
  <2>2. Inv' /\ Cont(lists)' = Cont(lists) BY <2>1, UnchangedInv
  <2>3. C!Set(i, t)
    <3>1. Cont(lists) = [j \in DOMAIN Cont(lists) \cup {i} |-> IF j = i THEN s ELSE Cont(lists)[j]]
      BY DEF Cont, live, s
    <3> QED BY <2>1, <2>2, <3>1 DEF C!Set, C!live
  <2>4. C!RemoveValue(i, v) BY <1>5, <2>1, <2>3, LiveIs DEF C!RemoveValue, s, t, has
  <2>5. i \in C!live BY LiveIs
  <2> QED BY <2>2, <2>4, <2>5 DEF Good, C!Next
<1> QED BY <1>4, <1>5

\* A call that leaves another chain with as many nodes at i.
LEMMA ReplacedSets ==
  ASSUME Inv, NEW i \in live, NEW k, NEW t, Fits(k, t), k.alloc = lists[i].alloc,
         Len(t) = Len(Contents(lists[i])), lists' = With(lists, i, k), out' = out
  PROVE  Inv' /\ C!Set(i, t)
<1>1. i \in Lists /\ Nodes(lists[i]) = Len(t) /\ Len(t) \in Nat BY LiveFits
<1>2. Nodes(k) = Len(t) /\ k.alloc \in Allocators BY FitsIs
<1>3. 0 = Nodes(k) - (IF i \in live THEN Nodes(lists[i]) ELSE 0) BY <1>1, <1>2
<1>4. Account(k.alloc, 0)
  <2>1. out \in [Allocators -> Int] BY DEF Inv, Sound
  <2>2. out = [out EXCEPT ![k.alloc] = @ + 0]
    <3>1. out[k.alloc] + 0 = out[k.alloc] BY <1>2, <2>1
    <3> QED BY <1>2, <2>1, <3>1
  <2> QED BY <2>2 DEF Account
<1> QED BY <1>1, <1>3, <1>4, ChangeSets

LEMMA SetAtGood ==
  ASSUME Inv, NEW i \in live, NEW idx \in 0 .. lists[i].size - 1, NEW v \in Values,
         set_at(i, idx, v)
  PROVE  Good
<1> DEFINE l == lists[i]
           t == Contents(l)
           n == Len(t)
           at == node_at(l, idx)
           k == [l EXCEPT !.nodes[at].value = v]
<1>1. Keeps(l, t) /\ n \in Nat /\ l.size \in Nat /\ l.size <= n /\ (~ Middles => l.size = n)
      /\ t \in Seq(Values)
  BY LiveFits
<1>2. PICK s : Holds(l, s, t, n) BY LiveStrung
<1>3. lists' = [lists EXCEPT ![i] = k] /\ out' = out /\ ret' = "yes"
  <2>1. lists' = [lists EXCEPT ![i].nodes[at].value = v] /\ out' = out /\ ret' = "yes"
    BY DEF set_at
  <2> HIDE DEF at
  <2> QED BY <2>1
<1>4. lists' = With(lists, i, k)
  <2> HIDE DEF k
  <2> QED BY <1>3, ExceptIsWith
<1>5. PICK p \in 1 .. n : at = s[p]
  <2>1. idx \in 0 .. l.size - 1 OBVIOUS
  <2> HIDE DEF l, t, n
  <2> QED BY <1>1, <1>2, <2>1, NodeAtIs
<1> DEFINE u == [t EXCEPT ![p] = v]
           z == l.size
<1>6. Turned(k, l, u, z)
  <2>1. ValueSet(k, l, s[p], v) BY <1>5 DEF ValueSet
  <2>2. Holds(l, s, t, Len(t)) /\ p \in 1 .. Len(t) BY <1>2
  <2> HIDE DEF l, t, n, k
  <2> QED BY <1>1, <2>1, <2>2, ValueSetTurns
<1>7. Len(u) = n BY <1>1
<1> HIDE DEF k
<1>8. Fits(k, u) /\ k.alloc = l.alloc
  <2>1. Keeps(k, u) /\ k.alloc = l.alloc /\ k.size = z BY <1>6 DEF Turned
  <2> HIDE DEF u
  <2> QED BY <1>1, <1>7, <2>1 DEF Fits
<1> HIDE DEF u
<1>9. Inv' /\ C!Set(i, u) BY <1>3, <1>4, <1>7, <1>8, ReplacedSets
<1>10. p - 1 \in 0 .. n - 1 /\ (p - 1) + 1 = p BY <1>1
<1>11. C!Replace(i, p - 1, v) BY <1>3, <1>9, <1>10, LiveIs DEF C!Replace, u
<1>12. i \in C!live /\ p - 1 \in 0 .. Len(Cont(lists)[i]) - 1 BY <1>10, LiveIs
<1> QED BY <1>9, <1>11, <1>12 DEF Good, C!Next

LEMMA EmptyFits ==
  ASSUME NEW a \in Allocators
  PROVE  Fits(Empty(a), << >>) /\ Empty(a).alloc = a /\ Nodes(Empty(a)) = 0
<1>1. Keeps(Empty(a), << >>) /\ Empty(a).alloc = a /\ Empty(a).size = 0 BY EmptyKeeps
<1>2. Len(<< >>) = 0 OBVIOUS
<1>3. Nodes(Empty(a)) = Len(<< >>) BY <1>1, KeepsContents
<1> QED BY <1>1, <1>2, <1>3 DEF Fits

LEMMA ClearGood ==
  ASSUME Inv, NEW i \in live, clear(i)
  PROVE  Good
<1> DEFINE a == lists[i].alloc
           k == Empty(a)
           n == - Cleared(lists[i])
<1>1. i \in Lists /\ a \in Allocators /\ Cleared(lists[i]) = Nodes(lists[i])
      /\ Nodes(lists[i]) \in Nat
  BY LiveFits
<1>2. Fits(k, << >>) /\ k.alloc = a /\ Nodes(k) = 0 BY <1>1, EmptyFits
<1>3. lists' = [lists EXCEPT ![i] = k] /\ ret' = "done" /\ Account(a, n) BY DEF clear
<1> HIDE DEF k
<1>4. lists' = With(lists, i, k) BY <1>3, ExceptIsWith
<1>5. n = Nodes(k) - (IF i \in live THEN Nodes(lists[i]) ELSE 0) BY <1>1, <1>2
<1>6. Account(k.alloc, n) /\ (i \in live => k.alloc = lists[i].alloc) BY <1>2, <1>3
<1> HIDE DEF n
<1>7. Inv' /\ C!Set(i, << >>) BY <1>1, <1>2, <1>4, <1>5, <1>6, ChangeSets
<1>8. C!Clear(i) /\ i \in C!live BY <1>3, <1>7, LiveIs DEF C!Clear
<1> QED BY <1>7, <1>8 DEF Good, C!Next

LEMMA DestroyGood ==
  ASSUME Inv, NEW i \in live, destroy(i)
  PROVE  Good
<1> DEFINE g == Without(lists, i)
           a0 == lists[i].alloc
           m == Cleared(lists[i])
<1>1. lists' = g /\ ret' = "done" /\ out' = [out EXCEPT ![a0] = @ + (- m)]
  BY DEF destroy, Account
<1>2. /\ DOMAIN g = live \ {i} /\ g = [j \in DOMAIN g |-> g[j]]
      /\ \A j \in live \ {i} : g[j] = lists[j]
  <2>1. g = [j \in live \ {i} |-> lists[j]] BY DEF Without, live
  <2> HIDE DEF g
  <2> QED BY <2>1
<1>3. live \subseteq Lists /\ (\A j \in live : Fits(lists[j], Contents(lists[j])))
      /\ out \in [Allocators -> Int]
      /\ \A a \in Allocators : IsFiniteSet(Owned(lists, a)) /\ out[a] = Cardinality(Owned(lists, a))
  BY DEF Inv, Sound, live
<1>4. a0 \in Allocators /\ m \in Nat /\ m = Nodes(lists[i]) BY LiveFits
<1>5. \A a : ShareOf(lists, i, a) = IF a = a0 THEN m ELSE 0 BY <1>4 DEF ShareOf, Share, live
<1> HIDE DEF g, a0, m
<1>6. out' \in [Allocators -> Int]
  <2>1. out[a0] + (- m) \in Int BY <1>3, <1>4
  <2> QED BY <1>1, <1>3, <2>1
<1>7. ASSUME NEW a \in Allocators
      PROVE  IsFiniteSet(Owned(g, a)) /\ out'[a] = Cardinality(Owned(g, a))
  <2>1. Owned(g, a) = Rest(lists, i, a)
    <3>1. \A j, d : << j, d >>[1] = j OBVIOUS
    <3>2. ASSUME NEW x PROVE x \in Owned(g, a) <=> x \in Owned(lists, a) /\ x[1] # i
      <4>1. x \in Owned(g, a) <=>
              \E j \in DOMAIN g : g[j].alloc = a /\ \E d \in DOMAIN g[j].nodes : x = << j, d >>
        BY OwnedIs
      <4>2. x \in Owned(lists, a) <=>
              \E j \in live : lists[j].alloc = a /\ \E d \in DOMAIN lists[j].nodes : x = << j, d >>
        BY OwnedIs DEF live
      <4> QED BY <1>2, <3>1, <4>1, <4>2
    <3> QED BY <3>2 DEF Rest
  <2>2. IsFiniteSet(Rest(lists, i, a))
    <3>1. Rest(lists, i, a) \subseteq Owned(lists, a) BY DEF Rest
    <3> QED BY <1>3, <3>1, FS_Subset
  <2>3. i \in DOMAIN lists => IsFiniteSet(DOMAIN lists[i].nodes)
    <3>1. Fits(lists[i], Contents(lists[i])) BY <1>3
    <3> QED BY <3>1, FitsIs
  <2>4. /\ Cardinality(Rest(lists, i, a)) \in Nat
        /\ Cardinality(Owned(lists, a)) = Cardinality(Rest(lists, i, a)) + ShareOf(lists, i, a)
    BY <2>2, <2>3, OwnedCounts
  <2>5. out'[a] = out[a] - ShareOf(lists, i, a)
    <3>1. CASE a = a0
      <4>1. out'[a] = out[a] + (- m) BY <1>1, <1>3, <3>1
      <4>2. out[a] + (- m) = out[a] - m BY <1>3, <1>4
      <4> QED BY <1>5, <3>1, <4>1, <4>2
    <3>2. CASE a # a0
      <4>1. out'[a] = out[a] BY <1>1, <1>3, <3>2
      <4>2. out[a] = out[a] - 0 BY <1>3
      <4> QED BY <1>5, <3>2, <4>1, <4>2
    <3> QED BY <3>1, <3>2
  <2>6. out[a] = Cardinality(Owned(lists, a)) BY <1>3
  <2>7. ShareOf(lists, i, a) \in Nat BY <1>4, <1>5
  <2> QED BY <2>1, <2>2, <2>4, <2>5, <2>6, <2>7
<1>8. \A j \in DOMAIN g : Fits(g[j], Contents(g[j])) BY <1>2, <1>3
<1>9. DOMAIN g \subseteq Lists BY <1>2, <1>3
<1>10. Sound(g, out') BY <1>2, <1>6, <1>7, <1>8, <1>9 DEF Sound
<1>11. Inv' BY <1>1, <1>10 DEF Inv
<1>12. Cont(lists)' = [j \in C!live \ {i} |-> Cont(lists)[j]]
  <2>1. Cont(lists)' = [j \in DOMAIN g |-> Contents(g[j])] BY <1>1 DEF Cont
  <2>2. \A j \in live \ {i} : Contents(g[j]) = Cont(lists)[j] BY <1>2 DEF Cont, live
  <2> QED BY <1>2, <2>1, <2>2, LiveIs
<1>13. C!Destroy(i) /\ i \in C!live BY <1>1, <1>12, LiveIs DEF C!Destroy
<1> QED BY <1>11, <1>13 DEF Good, C!Next

LEMMA ShareInt ==
  /\ \A l, t, a : Fits(l, t) => Share(l, a) \in Int
  /\ Inv => \A i, a : ShareOf(lists, i, a) \in Int
<1>1. ASSUME NEW l, NEW t, NEW a, Fits(l, t) PROVE Share(l, a) \in Int
  <2>1. Nodes(l) = Len(t) /\ Len(t) \in Nat BY <1>1, FitsIs
  <2> QED BY <2>1 DEF Share
<1>2. ASSUME Inv, NEW i, NEW a PROVE ShareOf(lists, i, a) \in Int
  <2>1. i \in DOMAIN lists => Fits(lists[i], Contents(lists[i])) BY <1>2 DEF Inv, Sound
  <2> QED BY <1>1, <2>1 DEF ShareOf
<1> QED BY <1>1, <1>2

\* Two lists of f at once.
LEMMA PutTwo ==
  ASSUME Inv, NEW i \in Lists, NEW j \in Lists, i # j,
         NEW k, NEW t, Fits(k, t), NEW m, NEW u, Fits(m, u),
         lists' = With(With(lists, i, k), j, m), out' = out,
         \A a \in Allocators :
           ShareOf(lists, i, a) + ShareOf(lists, j, a) = Share(k, a) + Share(m, a)
  PROVE  /\ Inv'
         /\ Cont(lists)' = [x \in DOMAIN Cont(lists) \cup {i, j} |->
                              IF x = j THEN u ELSE IF x = i THEN t ELSE Cont(lists)[x]]
<1> DEFINE g == With(lists, i, k)
           o == [a \in Allocators |-> out[a] - ShareOf(lists, i, a) + Share(k, a)]
<1>1. out \in [Allocators -> Int]
      /\ \A a \in Allocators : ShareOf(lists, i, a) \in Int /\ Share(k, a) \in Int
           /\ ShareOf(lists, j, a) \in Int /\ Share(m, a) \in Int
  <2>1. out \in [Allocators -> Int] BY DEF Inv, Sound
  <2>2. \A a : /\ ShareOf(lists, i, a) \in Int /\ Share(k, a) \in Int
              /\ ShareOf(lists, j, a) \in Int /\ Share(m, a) \in Int
    BY ShareInt
  <2> QED BY <2>1, <2>2
<1>2. Rebooked(o, out, lists, i, k) BY <1>1 DEF Rebooked
<1>3. Sound(g, o)
  <2> HIDE DEF o
  <2> QED BY <1>2, PutSound DEF Inv
<1>4. \A a \in Allocators : ShareOf(g, j, a) = ShareOf(lists, j, a) BY DEF ShareOf, With
<1>5. Rebooked(out, o, g, j, m)
  <2>1. \A a \in Allocators : o[a] = out[a] - ShareOf(lists, i, a) + Share(k, a) OBVIOUS
  <2> HIDE DEF g, o
  <2>2. ASSUME NEW a \in Allocators PROVE out[a] = o[a] - ShareOf(g, j, a) + Share(m, a)
    <3> DEFINE w == out[a]
               x == ShareOf(lists, i, a)
               y == ShareOf(lists, j, a)
               z == Share(k, a)
               n == Share(m, a)
    <3>1. w \in Int /\ x \in Int /\ y \in Int /\ z \in Int /\ n \in Int BY <1>1
    <3>2. x + y = z + n OBVIOUS
    <3>3. o[a] = w - x + z /\ ShareOf(g, j, a) = y BY <1>4, <2>1
    <3> HIDE DEF w, x, y, z, n
    <3>4. w = (w - x + z) - y + n BY <3>1, <3>2
    <3> QED BY <3>3, <3>4 DEF w, n
  <2> QED BY <1>1, <2>2 DEF Rebooked
<1>6. Sound(With(g, j, m), out)
  <2> HIDE DEF g, o
  <2> QED BY <1>3, <1>5, PutSound
<1>7. IsPut(Cont(g), Cont(lists), i, t) BY PutCont
<1>8. IsPut(Cont(With(g, j, m)), Cont(g), j, u)
  <2> HIDE DEF g
  <2> QED BY PutCont
<1>9. Cont(lists)' = Cont(With(g, j, m)) BY DEF Cont
<1>10. Inv' BY <1>6 DEF Inv
<1> HIDE DEF g
<1>11. Cont(With(g, j, m)) = [x \in DOMAIN Cont(lists) \cup {i, j} |->
                              IF x = j THEN u ELSE IF x = i THEN t ELSE Cont(lists)[x]]
  <2> DEFINE c == Cont(lists)
             d == Cont(g)
  <2>1. d = [x \in DOMAIN c \cup {i} |-> IF x = i THEN t ELSE c[x]] BY <1>7 DEF IsPut
  <2>2. Cont(With(g, j, m)) = [x \in DOMAIN d \cup {j} |-> IF x = j THEN u ELSE d[x]]
    BY <1>8 DEF IsPut
  <2> HIDE DEF c, d
  <2>3. DOMAIN d = DOMAIN c \cup {i} BY <2>1
  <2>4. (DOMAIN c \cup {i}) \cup {j} = DOMAIN c \cup {i, j} OBVIOUS
  <2>5. \A x \in DOMAIN c \cup {i, j} :
          (IF x = j THEN u ELSE d[x]) = IF x = j THEN u ELSE IF x = i THEN t ELSE c[x]
    BY <2>1
  <2>6. Cont(With(g, j, m)) = [x \in DOMAIN c \cup {i, j} |-> IF x = j THEN u ELSE d[x]]
    BY <2>2, <2>3, <2>4
  <2> QED BY <2>5, <2>6 DEF c
<1> QED BY <1>9, <1>10, <1>11

LEMMA MoveConstructGood ==
  ASSUME Inv, NEW i \in Lists, NEW j \in live, i # j, move_construct(i, j)
  PROVE  Good
<1> DEFINE s == Contents(lists[j])
           m == Empty(lists[j].alloc)
<1>1. i \notin live /\ lists' = With(With(lists, i, lists[j]), j, m) /\ out' = out /\ ret' = "done"
  BY DEF move_construct
<1>2. Fits(lists[j], s) /\ j \in Lists /\ lists[j].alloc \in Allocators
  BY LiveFits
<1>3. Fits(m, << >>) /\ Nodes(m) = 0 BY <1>2, EmptyFits
<1>4. \A a \in Allocators :
        ShareOf(lists, i, a) + ShareOf(lists, j, a) = Share(lists[j], a) + Share(m, a)
  <2>1. \A a \in Allocators : Share(m, a) = 0 BY <1>3 DEF Share
  <2>2. \A a \in Allocators : ShareOf(lists, i, a) = 0 /\ ShareOf(lists, j, a) = Share(lists[j], a)
    BY <1>1 DEF ShareOf, live
  <2>3. \A a \in Allocators : Share(lists[j], a) \in Int BY <1>2, ShareInt
  <2> QED BY <2>1, <2>2, <2>3
<1> HIDE DEF s, m
<1>5. /\ Inv'
      /\ Cont(lists)' = [x \in DOMAIN Cont(lists) \cup {i, j} |->
                           IF x = j THEN << >> ELSE IF x = i THEN s ELSE Cont(lists)[x]]
  BY <1>1, <1>2, <1>3, <1>4, PutTwo
<1>6. C!MoveConstruct(i, j)
  <2>1. DOMAIN Cont(lists) \cup {i, j} = C!live \cup {i} /\ Cont(lists)[j] = s /\ i \notin C!live
    BY <1>1, LiveIs DEF C!live, s
  <2>2. Cont(lists)' = [x \in C!live \cup {i} |->
                         IF x = i THEN s ELSE IF x = j THEN << >> ELSE Cont(lists)[x]]
    BY <1>5, <2>1
  <2> QED BY <1>1, <2>1, <2>2 DEF C!MoveConstruct
<1>7. j \in C!live BY LiveIs
<1> QED BY <1>5, <1>6, <1>7 DEF Good, C!Next

LEMMA MoveAssignGood ==
  ASSUME Inv, NEW i \in live, NEW j \in live, i # j, move_assign(i, j)
  PROVE  Good
<1> DEFINE s == Contents(lists[i])
           t == Contents(lists[j])
<1>1. lists[i].alloc = lists[j].alloc /\ lists' = With(With(lists, i, lists[j]), j, lists[i])
      /\ out' = out /\ ret' = "done"
  BY DEF move_assign
<1>2. Fits(lists[i], s) /\ Fits(lists[j], t) /\ i \in Lists /\ j \in Lists BY LiveFits
<1>3. \A a \in Allocators :
        ShareOf(lists, i, a) + ShareOf(lists, j, a) = Share(lists[j], a) + Share(lists[i], a)
  <2>1. \A a \in Allocators : ShareOf(lists, i, a) = Share(lists[i], a)
                            /\ ShareOf(lists, j, a) = Share(lists[j], a)
    BY DEF ShareOf, live
  <2>2. \A a \in Allocators : Share(lists[j], a) \in Int /\ Share(lists[i], a) \in Int
    BY <1>2, ShareInt
  <2> QED BY <2>1, <2>2
<1> HIDE DEF s, t
<1>4. /\ Inv'
      /\ Cont(lists)' = [x \in DOMAIN Cont(lists) \cup {i, j} |->
                           IF x = j THEN s ELSE IF x = i THEN t ELSE Cont(lists)[x]]
  BY <1>1, <1>2, <1>3, PutTwo
<1>5. C!MoveAssign(i, j)
  <2>1. /\ DOMAIN Cont(lists) \cup {i, j} = DOMAIN Cont(lists)
        /\ Cont(lists)[j] = t /\ Cont(lists)[i] = s
    BY LiveIs DEF C!live, s, t
  <2>2. Cont(lists)' = [Cont(lists) EXCEPT ![i] = t, ![j] = s]
    <3> DEFINE c == Cont(lists)
    <3>1. c = [x \in DOMAIN c |-> c[x]] BY DEF Cont
    <3>2. Cont(lists)' = [x \in DOMAIN c |-> IF x = j THEN s ELSE IF x = i THEN t ELSE c[x]]
      BY <1>4, <2>1
    <3> HIDE DEF c
    <3>3. [x \in DOMAIN c |-> IF x = j THEN s ELSE IF x = i THEN t ELSE c[x]]
          = [c EXCEPT ![i] = t, ![j] = s]
      BY <3>1
    <3> QED BY <3>2, <3>3 DEF c
  <2> QED BY <1>1, <2>1, <2>2 DEF C!MoveAssign
<1>6. i \in C!live /\ j \in C!live BY LiveIs
<1> QED BY <1>4, <1>5, <1>6 DEF Good, C!Next
-----------------------------------------------------------------------------
(* The step and the theorems *)

LEMMA NextGood ==
  ASSUME LinkedListAssumption, Inv, [Next]_vars
  PROVE  Good
<1>1. CASE UNCHANGED vars
  <2>1. UNCHANGED << lists, out >> /\ ret' = ret BY <1>1 DEF vars
  <2> QED BY <2>1, UnchangedInv DEF Good
<1>2. CASE Next
  <2>1. PICK i \in Lists :
          \/ \E quota \in 0 .. MaxQuota :
               \/ \E a \in Allocators, s \in Initial : construct(i, a, s, quota)
               \/ \E j \in live \ {i} : copy_construct(i, j, quota)
               \/ i \in live /\ Allocating(i, quota)
          \/ \E j \in live \ {i} : move_construct(i, j) \/ (i \in live /\ move_assign(i, j))
          \/ /\ i \in live
             /\ \/ clear(i) \/ destroy(i) \/ remove_first(i) \/ remove_last(i)
                \/ \E v \in Values : remove(i, v)
                \/ \E idx \in 0 .. lists[i].size - 1 :
                     remove_at(i, idx) \/ \E v \in Values : set_at(i, idx, v)
    BY <1>2 DEF Next
  <2>2. \A q \in 0 .. MaxQuota : q \in Nat BY DEF LinkedListAssumption
  <2>3. ASSUME NEW q \in 0 .. MaxQuota, NEW a \in Allocators, NEW s \in Initial,
               construct(i, a, s, q)
        PROVE  Good
    BY <2>2, <2>3, ConstructGood
  <2>4. ASSUME NEW q \in 0 .. MaxQuota, NEW j \in live \ {i}, copy_construct(i, j, q) PROVE Good
    BY <2>2, <2>4, CopyConstructGood
  <2>5. ASSUME NEW q \in 0 .. MaxQuota, i \in live, Allocating(i, q) PROVE Good
    <3>1. q \in Nat /\ i \in live BY <2>2, <2>5
    <3>2. ASSUME NEW j \in live \ {i}, copy_assign(i, j, q) \/ move_assign_copies(i, j, q)
          PROVE  Good
      BY <3>1, <3>2, CopyAssignGood DEF move_assign_copies
    <3>3. ASSUME NEW v \in Values, add_last(i, v, q) PROVE Good BY <3>1, <3>3, AddLastGood
    <3>4. ASSUME NEW v \in Values, add_first(i, v, q) PROVE Good BY <3>1, <3>4, AddFirstGood
    <3>5. ASSUME NEW v \in Values, NEW idx \in 0 .. lists[i].size, add_at(i, idx, v, q)
          PROVE  Good
      BY <3>1, <3>5, AddAtGood
    <3> QED BY <2>5, <3>2, <3>3, <3>4, <3>5 DEF Allocating
  <2>6. ASSUME NEW j \in live \ {i}, move_construct(i, j) PROVE Good BY <2>6, MoveConstructGood
  <2>7. ASSUME NEW j \in live \ {i}, i \in live, move_assign(i, j) PROVE Good
    BY <2>7, MoveAssignGood
  <2>8. ASSUME i \in live, clear(i) PROVE Good BY <2>8, ClearGood
  <2>9. ASSUME i \in live, destroy(i) PROVE Good BY <2>9, DestroyGood
  <2>10. ASSUME i \in live, remove_first(i) \/ remove_last(i) PROVE Good BY <2>10, RemoveEndGood
  <2>11. ASSUME i \in live, NEW v \in Values, remove(i, v) PROVE Good BY <2>11, RemoveGood
  <2>12. ASSUME i \in live, NEW idx \in 0 .. lists[i].size - 1, remove_at(i, idx) PROVE Good
    BY <2>12, RemoveAtGood
  <2>13. ASSUME i \in live, NEW idx \in 0 .. lists[i].size - 1, NEW v \in Values,
                set_at(i, idx, v)
         PROVE  Good
    BY <2>13, SetAtGood
  <2> QED BY <2>1, <2>3, <2>4, <2>5, <2>6, <2>7, <2>8, <2>9, <2>10, <2>11, <2>12, <2>13
<1> QED BY <1>1, <1>2

LEMMA InitInv == Init => Inv /\ C!Init
<1> SUFFICES ASSUME Init PROVE Inv /\ C!Init OBVIOUS
<1>1. lists = << >> /\ out = [a \in Allocators |-> 0] /\ ret = "done" BY DEF Init
<1>2. DOMAIN lists = {} /\ lists = [i \in DOMAIN lists |-> lists[i]] BY <1>1
<1>3. \A a \in Allocators : IsFiniteSet(Owned(lists, a)) /\ out[a] = Cardinality(Owned(lists, a))
  <2>1. ASSUME NEW a \in Allocators PROVE Owned(lists, a) = {}
    <3>1. \A x : x \notin Owned(lists, a) BY <1>2, OwnedIs
    <3> QED BY <3>1
  <2> QED BY <1>1, <2>1, FS_EmptySet
<1>4. out \in [Allocators -> Int] BY <1>1
<1>5. Inv BY <1>2, <1>3, <1>4 DEF Inv, Sound
<1>6. Cont(lists) = << >>
  <2>1. Cont(lists) = [i \in {} |-> Contents(lists[i])] BY <1>2 DEF Cont
  <2> QED BY <2>1
<1> QED BY <1>1, <1>5, <1>6 DEF C!Init

\* What holds of the chains whichever calls the clients make.
ChainsSound ==
  /\ \A i \in live : WellLinked(lists[i]) /\ lists[i].size \in 0 .. Nodes(lists[i])
  /\ \A a \in Allocators : out[a] = Owed(a)

LEMMA InvChainsSound == Inv => ChainsSound
<1> SUFFICES ASSUME Inv PROVE ChainsSound OBVIOUS
<1>1. ASSUME NEW i \in live PROVE WellLinked(lists[i]) /\ lists[i].size \in 0 .. Nodes(lists[i])
  BY LiveFits, KeepsContents
<1>2. \A a \in Allocators : out[a] = Owed(a) BY DEF Inv, Sound, Owed
<1> QED BY <1>1, <1>2 DEF ChainsSound

LEMMA InvLinksAgree ==
  ASSUME ~ Middles, Inv
  PROVE  LinksAgree
<1>1. ASSUME NEW i \in live PROVE Linked(lists[i])
  <2> DEFINE l == lists[i]
             t == Contents(l)
             n == Len(t)
  <2>1. l.size = n /\ Nodes(l) = n /\ n \in Nat BY LiveFits
  <2>2. WellLinked(l) BY LiveFits, KeepsContents
  <2>3. PICK s : Holds(l, s, t, n) /\ Forward(l) = s BY LiveStrung
  <2> HIDE DEF l, t, n
  <2>4. ASSUME NEW idx \in 0 .. l.size - 1 PROVE node_at(l, idx) = Forward(l)[idx + 1]
    <3>1. l.size <= n BY <2>1
    <3> QED BY <2>1, <2>3, <3>1, NodeAtIs
  <2>5. Linked(l) BY <2>1, <2>2, <2>4 DEF Linked
  <2> QED BY <2>5 DEF l
<1>2. ChainsSound BY InvChainsSound
<1> QED BY <1>1, <1>2 DEF LinksAgree, ChainsSound

\* Every chain is the same seen from its two ends and is never shorter than
\* its list's size, and each allocator is owed the nodes of live lists and no
\* others, whichever node of a call is refused and though add(idx) and
\* remove_at do not keep the size (linked_list.hpp:1083-1113, 1228-1248).
\* Left out is only the call after which _size would wrap.
THEOREM ChainsStaySound ==
  ASSUME LinkedListAssumption
  PROVE  Spec => []ChainsSound
<1>1. Init => Inv BY InitInv
<1>2. Inv /\ [Next]_vars => Inv' BY NextGood DEF Good
<1>3. Inv => ChainsSound BY InvChainsSound
<1> QED BY <1>1, <1>2, <1>3, PTL DEF Spec

\* For clients that add and remove at the ends and by value only, the size is
\* the number of the nodes, and an index finds its node from whichever end is
\* nearer (linked_list.hpp:1115-1140).
THEOREM LinksAlwaysAgree ==
  ASSUME LinkedListAssumption, ~ Middles
  PROVE  Spec => []LinksAgree
<1>1. Init => Inv BY InitInv
<1>2. Inv /\ [Next]_vars => Inv' BY NextGood DEF Good
<1>3. Inv => LinksAgree BY InvLinksAgree
<1> QED BY <1>1, <1>2, <1>3, PTL DEF Spec

\* Every call of linked_list.hpp does to the contents of the lists what
\* ListContract says, and a call that throws leaves all of them as they were.
\* After a call in the middle a list's size is too small, and an index may mean
\* another element of it than the client's.
THEOREM LinkedListsKeepContract ==
  ASSUME LinkedListAssumption
  PROVE  Spec => C!Spec
<1>1. Init => Inv /\ C!Init BY InitInv
<1>2. Inv /\ [Next]_vars => Inv' /\ [C!Next]_<< Cont(lists), ret >>
  BY NextGood DEF Good
<1> QED BY <1>1, <1>2, PTL DEF Spec, C!Spec
=============================================================================
