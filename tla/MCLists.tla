------------------------------ MODULE MCLists ------------------------------
(***************************************************************************)
(* array_list and linked_list side by side, against the same contract.  A  *)
(* client uses one of the two at a time: lists of the other kind come into *)
(* being only when none of the first is left.                              *)
(***************************************************************************)
EXTENDS ArrayList

CONSTANT Middles       \* are elements inserted and removed in the middle?

VARIABLES
  chains, chainNodes,  \* the linked lists and their allocators
  held                 \* auxiliary: what each live list holds, for the refinement

L == INSTANCE LinkedList WITH lists <- chains, out <- chainNodes
ASSUME LinkedAssumption == L!LinkedListAssumption

Holding == [i \in live \cup L!live |->
              IF i \in live THEN Contents(lists[i]) ELSE L!Contents(chains[i])]

InitBoth == Init /\ L!Init /\ held = Holding
NextBoth ==
  /\ \/ L!live = {} /\ Next /\ UNCHANGED << chains, chainNodes >>
     \/ live = {} /\ L!Next /\ UNCHANGED << lists, out >>
  /\ held' = Holding'
SpecBoth == InitBoth /\ [][NextBoth]_<< lists, out, chains, chainNodes, ret, held >>
-----------------------------------------------------------------------------
Spelled == {<< >>} \cup [1 .. 1 -> Values] \cup [1 .. 2 -> Values]
Symmetry == Permutations(Lists) \cup Permutations(Allocators) \cup Permutations(Values)

\* The links of the linked lists agree after every call.
LinksAgree == L!LinksAgree

\* "Returns the size of this list." (linked_list.hpp:755)
SizeIsLength == \A i \in L!live : chains[i].size = L!Nodes(chains[i])

\* Both kinds of list do what their comments promise of a sequence: a call
\* that throws has changed nothing, any other call has its whole effect.
Contract == INSTANCE ListContract WITH contents <- held
ImplementsLists == Contract!Spec
=============================================================================
