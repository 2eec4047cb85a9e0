-------------------------- MODULE LinearAllocator --------------------------
(***************************************************************************)
(* tca::linear_allocator: a buffer from which regions are cut in order and *)
(* only given back all at once, by reset or the destructor.                *)
(***************************************************************************)
EXTENDS Integers

CONSTANTS
  Buffer,    \* address of _buffer, aligned to max_align_t by the parent
  capacity,
  Requests   \* the [sz, align] pairs clients ask for; align 1 is allocate(sz)

MAX_ALIGN == 16   \* alignof(std::max_align_t)

ASSUME LinearAssumption ==
  /\ Buffer \in Nat /\ Buffer % MAX_ALIGN = 0 /\ capacity \in Nat
  /\ Requests \subseteq [sz : Nat, align : Nat \ {0}]

VARIABLES
  linear,   \* [buffer, offset]: is _buffer set, and _offset
  granted   \* address -> request: what has been handed out and not returned

AlignUp(x, a) == ((x + a - 1) \div a) * a
Put(f, k, v)  == [x \in DOMAIN f \cup {k} |-> IF x = k THEN v ELSE f[x]]
Drop(f, S)    == [x \in DOMAIN f \ S |-> f[x]]

LinearInit ==
  /\ linear \in [buffer : BOOLEAN, offset : {0}]   \* the parent may refuse
  /\ granted = << >>

\* The bytes skipped before the region: allocate skips none, allocate_align
\* skips _offset rounded up, which is more than the padding the region needs:
\* the pointer is aligned only when the old offset was.
Skip(l, r) == IF r.align = 1 THEN 0 ELSE AlignUp(l.offset, r.align)

Fits(l, r)  == l.buffer /\ l.offset + Skip(l, r) + r.sz <= capacity
Place(l, r) == Buffer + l.offset + Skip(l, r)

Bumped(l, r) == [l EXCEPT !.offset = @ + Skip(l, r) + r.sz]

\* allocate and allocate_align of a request that fits.
LinearAllocate(r) ==
  /\ Fits(linear, r)
  /\ linear' = Bumped(linear, r)
  /\ granted' = Put(granted, Place(linear, r), r)

\* deallocate does nothing; the client no longer uses the region.
LinearDeallocate(a) == granted' = Drop(granted, {a}) /\ UNCHANGED linear

\* reset is the client's promise that it uses no region any more.
LinearReset == linear' = [linear EXCEPT !.offset = 0] /\ granted' = << >>
=============================================================================
