-------------------------- MODULE AllocatorContract --------------------------
(***************************************************************************)
(* What tca::allocator promises its client (src/docs/core/memory.md and    *)
(* the interface of allocator.hpp), whatever the implementation: allocate  *)
(* and allocate_align hand out a region nobody else holds, aligned and     *)
(* large enough for the request, or nullptr; deallocate takes back exactly *)
(* one region the same object handed out.  The allocators of this project  *)
(* are shown to implement it, or the run shows where they do not.          *)
(***************************************************************************)
EXTENDS Integers

VARIABLE live    \* user pointer -> [sz, align]: what the client holds

\* The address range a client may use through pointer p, in allocation f.
Region(f, p) == p .. (p + f[p].sz - 1)

Disjoint(f) == \A p, q \in DOMAIN f : p # q =>
                 \/ p + f[p].sz <= q
                 \/ q + f[q].sz <= p

Init == live = << >>

\* allocate / allocate_align succeeded: one new pointer, aligned, whose
\* region overlaps none the client still holds, and no other pointer moved.
Grant ==
  \E p \in DOMAIN live' \ DOMAIN live :
    /\ DOMAIN live' = DOMAIN live \cup {p}
    /\ \A q \in DOMAIN live : live'[q] = live[q]
    /\ p % live'[p].align = 0
    /\ Disjoint(live')

\* deallocate: exactly the pointer passed leaves, the others keep their region.
TakeBack ==
  \E p \in DOMAIN live :
    live' = [q \in DOMAIN live \ {p} |-> live[q]]

\* The allocator is destroyed: nothing it handed out is valid any more.
Close == live' = << >>

Next == Grant \/ TakeBack \/ Close

Spec == Init /\ [][Next]_live
==============================================================================
