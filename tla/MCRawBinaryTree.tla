-------------------------- MODULE MCRawBinaryTree --------------------------
(***************************************************************************)
(* The two trees of the library, one at a time: the index of the free      *)
(* blocks and the rectangles of a texture atlas.                           *)
(***************************************************************************)
EXTENDS RawBinaryTree, TLC

CONSTANTS Sizes, Roots, MaxImages, MaxQuota
VARIABLES packer, state

A == INSTANCE Atlas

Begin == Init /\ A!Init
Step ==
  \/ state = "none" /\ Next /\ UNCHANGED << packer, state >>
  \/ linked = {} /\ A!Next /\ UNCHANGED vars
Behaviour == Begin /\ [][Step]_<< vars, packer, state >>
-----------------------------------------------------------------------------
Symmetry == Permutations(Items)
Shapes == {<< 1, 1 >>, << 1, 2 >>, << 2, 1 >>, << 2, 3 >>, << 3, 1 >>, << 3, 3 >>}
Drawings == {[w |-> s[1], h |-> s[2]] : s \in Shapes}
Sheets == [w : {1, 4}, h : {2, 3}]

\* A finished atlas holds every image once, in its size, apart from the others
\* and inside the atlas, whichever restarts led there, and still does when
\* places and sizes are divided by a scale factor (image_packer.cpp:71-195).
ImagesApart ==
  state = "packed" =>
    /\ \A i \in DOMAIN packer.images :
         \E n \in A!Drawn : n.ID = i /\ [w |-> n.w, h |-> n.h] = packer.images[i]
    /\ \A m, n \in A!Drawn : m # n =>
         m.ID # n.ID /\ \A scale \in 1 .. 3 : A!Apart(A!At(m, scale), A!At(n, scale))
    /\ \A n \in A!Drawn, scale \in 1 .. 3 :
         A!Inside(A!At(n, scale), packer.w \div scale, packer.h \div scale)

\* The atlas doubles only when no part that is still free has room for the
\* next image, when the splits have neither lost nor doubled a cell of the
\* atlas, and while it is narrower or lower than all images side by side, so
\* that create_tree ends.  This does not say that no arrangement would have fit:
\* the splits are never taken back (image_packer.cpp:76-92, image_tree.cpp:62-103).
DoublesOnlyWhenShort ==
  [][state = "packing" /\ state' = "packing" /\ packer'.w > packer.w =>
       LET image  == packer.images[packer.next]
           leaves == A!Leaves(packer.root[1])
       IN /\ \A n \in leaves : n.ID = 0 => n.w < image.w \/ n.h < image.h
          /\ \A x \in 0 .. packer.w - 1, y \in 0 .. packer.h - 1 :
               \E n \in leaves : A!Covers(n, x, y) /\ \A m \in leaves \ {n} : ~A!Covers(m, x, y)
          /\ packer.w < A!Total(packer.images).w \/ packer.h < A!Total(packer.images).h]_packer
=============================================================================
