------------------------------- MODULE Chains -------------------------------
(***************************************************************************)
(* The doubly linked chain that linked_list and linked_hash_map each keep: *)
(* `nodes' maps the name of a node to a record with its prev and next;     *)
(* `head' and `tail' are its ends.  The operators take any record with     *)
(* these three fields.  Both classes spell out the same code.              *)
(***************************************************************************)
EXTENDS Integers, SequencesExt, FiniteSetsExt

Nil == 0   \* nullptr

\* The nodes met from n on by way of "next" or "prev": a walk that comes back
\* on itself is cut off when it is longer than the chain.
Walk(nodes, n, way) ==
  LET ids == DOMAIN nodes
      To(m) == IF m \in ids THEN m ELSE Nil
      hop == [m \in ids \cup {Nil} |-> IF m = Nil THEN Nil ELSE To(nodes[m][way])]
      at[k \in 1 .. Cardinality(ids) + 1] == IF k = 1 THEN To(n) ELSE hop[at[k - 1]]
      met == {k \in 1 .. Cardinality(ids) + 1 : at[k] # Nil}
  IN [k \in 1 .. Cardinality(met) |-> at[k]]
Forward(c)  == Walk(c.nodes, c.head, "next")
Backward(c) == Walk(c.nodes, c.tail, "prev")

\* Node n is linked behind the tail, or before the head.
LinkLast(c, n) ==
  IF c.tail = Nil THEN [c EXCEPT !.nodes[n].prev = Nil, !.nodes[n].next = Nil, !.head = n, !.tail = n]
  ELSE [c EXCEPT !.nodes[n].prev = c.tail, !.nodes[n].next = Nil, !.nodes[c.tail].next = n, !.tail = n]
LinkFirst(c, n) ==
  IF c.head = Nil THEN [c EXCEPT !.nodes[n].prev = Nil, !.nodes[n].next = Nil, !.head = n, !.tail = n]
  ELSE [c EXCEPT !.nodes[n].prev = Nil, !.nodes[n].next = c.head, !.nodes[c.head].prev = n, !.head = n]

\* The neighbours of node n, and the ends, no longer point at it.
\* Mutant: the neighbour behind it still does.
UnlinkForward(c, n) ==
  LET prev == c.nodes[n].prev
      next == c.nodes[n].next
  IN IF prev = Nil
       THEN IF next = Nil THEN [c EXCEPT !.head = Nil, !.tail = Nil]
            ELSE [c EXCEPT !.head = next, !.nodes[next].prev = Nil]
     ELSE IF next = Nil THEN [c EXCEPT !.tail = prev, !.nodes[prev].next = Nil]
     ELSE [c EXCEPT !.nodes[prev].next = next]
Unlink(c, n) ==
  LET prev == c.nodes[n].prev
      next == c.nodes[n].next
  IN IF prev = Nil
       THEN IF next = Nil THEN [c EXCEPT !.head = Nil, !.tail = Nil]
            ELSE [c EXCEPT !.head = next, !.nodes[next].prev = Nil]
     ELSE IF next = Nil THEN [c EXCEPT !.tail = prev, !.nodes[prev].next = Nil]
     ELSE [c EXCEPT !.nodes[prev].next = next, !.nodes[next].prev = prev]

\* The walks from both ends meet every node, in opposite orders.
WellLinked(c) ==
  /\ Reverse(Forward(c)) = Backward(c)
  /\ ToSet(Forward(c)) = DOMAIN c.nodes
  /\ Len(Forward(c)) = Cardinality(DOMAIN c.nodes)
=============================================================================
