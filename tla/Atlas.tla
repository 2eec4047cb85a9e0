------------------------------- MODULE Atlas -------------------------------
(***************************************************************************)
(* tc::image_packer and the tree of tc::texturing::node behind it: images  *)
(* are put into the leaves of a tree of rectangles, each put splitting a   *)
(* leaf until one has the size of the image, and an image that fits        *)
(* nowhere makes the packer start again with an atlas of twice the size.   *)
(* Any allocation of a node may fail.                                      *)
(***************************************************************************)
EXTENDS Integers, SequencesExt

CONSTANTS
  Sizes,      \* [w, h] of the images
  Roots,      \* [w, h] of the atlas a client asks for
  MaxImages,  \* bound
  MaxQuota    \* bound: the allocations of a call that succeed

VARIABLES
  packer,   \* [images, w, h, root, next]: next is the loop variable of create_tree
  state     \* "none", "made", "packing", "packed", "threw"

vars == << packer, state >>

\* A node of the tree; no children is a leaf, and no ID is 0.
node(x, y, w, h) == [x |-> x, y |-> y, w |-> w, h |-> h, ID |-> 0, kids |-> << >>]

\* Mutant: the part beside the image is only as high as the image.
SplitLosesCorner(n, w, h) ==
  IF n.w - w > n.h - h
  THEN << node(n.x, n.y, w, n.h), node(n.x + w, n.y, n.w - w, h) >>
  ELSE << node(n.x, n.y, n.w, h), node(n.x, n.y + h, n.w, n.h - h) >>
\* Mutant: the second part begins where the first one does.
SplitOverlaps(n, w, h) ==
  IF n.w - w > n.h - h
  THEN << node(n.x, n.y, w, n.h), node(n.x, n.y, n.w - w, n.h) >>
  ELSE << node(n.x, n.y, n.w, h), node(n.x, n.y + h, n.w, n.h - h) >>
split(n, w, h) ==
  IF n.w - w > n.h - h
  THEN << node(n.x, n.y, w, n.h), node(n.x + w, n.y, n.w - w, n.h) >>
  ELSE << node(n.x, n.y, n.w, h), node(n.x, n.y + h, n.w, n.h - h) >>

\* The tree after the call, whether the image found a place in it, and how
\* many more allocations would succeed: less than none, the call has thrown.
Put(n, found, quota) == [node |-> n, found |-> found, quota |-> quota]
RECURSIVE put_image(_, _, _, _, _)
put_image(n, w, h, id, quota) ==
  LET into(k, kids, q) ==
        LET r == put_image(kids[k], w, h, id, q)
        IN [r EXCEPT !.node = [n EXCEPT !.kids = [kids EXCEPT ![k] = r.node]]]
      left == into(1, n.kids, quota)
  IN IF n.kids # << >>
     THEN IF left.found \/ left.quota < 0 THEN left ELSE into(2, n.kids, quota)
     ELSE IF n.ID # 0 \/ n.w < w \/ n.h < h THEN Put(n, FALSE, quota)
     ELSE IF n.w = w /\ n.h = h THEN Put([n EXCEPT !.ID = id], TRUE, quota)
     ELSE IF quota < 2 THEN Put(n, FALSE, -1)
     ELSE into(1, split(n, w, h), quota - 2)
-----------------------------------------------------------------------------
\* An image as large as the whole atlas is put into the root, which no search
\* visits; clients ask for an atlas that none of its images will fill.
Fills(image, root) ==
  \E k \in 0 .. image.w : image.w = root.w * 2 ^ k /\ image.h = root.h * 2 ^ k

Init == packer = << >> /\ state = "none"

construct(images, root) ==
  /\ state = "none"
  /\ \A i \in DOMAIN images : ~Fills(images[i], root)
  /\ packer' = [images |-> images, w |-> root.w, h |-> root.h, root |-> << >>, next |-> 1]
  /\ state' = "made"
destroy == state # "none" /\ packer' = << >> /\ state' = "none"

\* pack() begins with the tree.  After an exception clients drop the packer:
\* another pack() would draw the images that were put so far.
pack ==
  /\ state = "made"
  /\ \/ state' = "threw" /\ UNCHANGED packer
     \/ /\ packer' = [packer EXCEPT !.root = << node(0, 0, packer.w, packer.h) >>]
        /\ state' = "packing"

place(quota) ==
  LET i == packer.next
      r == put_image(packer.root[1], packer.images[i].w, packer.images[i].h, i, quota)
      larger == node(0, 0, 2 * packer.w, 2 * packer.h)
  IN /\ state = "packing" /\ i <= Len(packer.images)
     /\ \/ r.quota < 0 /\ packer' = [packer EXCEPT !.root = << r.node >>] /\ state' = "threw"
        \/ r.quota = 0 /\ r.found /\ packer' = [packer EXCEPT !.root = << r.node >>, !.next = i + 1]
           /\ UNCHANGED state
        \/ /\ r.quota = quota /\ quota = 0 /\ ~r.found
           /\ packer' = [packer EXCEPT !.w = larger.w, !.h = larger.h, !.root = << larger >>, !.next = 1]
           /\ UNCHANGED state

finish ==
  /\ state = "packing" /\ packer.next > Len(packer.images)
  /\ state' = "packed" /\ UNCHANGED packer

Next ==
  \/ \E n \in 1 .. MaxImages, root \in Roots :
       \E images \in [1 .. n -> Sizes] : construct(images, root)
  \/ pack \/ finish \/ destroy
  \/ \E quota \in 0 .. MaxQuota : place(quota)
Spec == Init /\ [][Next]_vars
-----------------------------------------------------------------------------
(* What the properties of the run are stated with. *)

\* depth_search of a tree: the nodes below the root that hold an image.
RECURSIVE Holding(_)
Holding(n) == (IF n.ID = 0 THEN {} ELSE {n}) \cup UNION {Holding(n.kids[k]) : k \in DOMAIN n.kids}
Drawn == UNION {Holding(packer.root[1].kids[k]) : k \in DOMAIN packer.root[1].kids}

\* Where pack(scale) draws the image of a node.
At(n, scale) ==
  [x |-> n.x \div scale, y |-> n.y \div scale, w |-> n.w \div scale, h |-> n.h \div scale]
Apart(a, b) ==
  a.x + a.w <= b.x \/ b.x + b.w <= a.x \/ a.y + a.h <= b.y \/ b.y + b.h <= a.y
Inside(a, w, h) == a.x + a.w <= w /\ a.y + a.h <= h

\* The parts that hold an image or are free.
RECURSIVE Leaves(_)
Leaves(n) == IF n.kids = << >> THEN {n} ELSE UNION {Leaves(n.kids[k]) : k \in DOMAIN n.kids}
Covers(n, x, y) == x \in n.x .. n.x + n.w - 1 /\ y \in n.y .. n.y + n.h - 1

\* All images side by side.
RECURSIVE Total(_)
Total(images) ==
  IF images = << >> THEN [w |-> 0, h |-> 0]
  ELSE [w |-> Head(images).w + Total(Tail(images)).w, h |-> Head(images).h + Total(Tail(images)).h]
=============================================================================
