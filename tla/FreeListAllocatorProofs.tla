----------------------- MODULE FreeListAllocatorProofs -----------------------
(***************************************************************************)
(* Safety of FreeListAllocator for every page size, request set, parent    *)
(* address set and integer width, as long as no request is cut by a width  *)
(* (RequestsFit).                                                          *)
(*                                                                         *)
(* The invariants speak of a heap h, so compact(), allocate_page() and the *)
(* carving of a block are three lemmas about a heap, and each branch of    *)
(* allocate_align chains those it performs.                                *)
(*                                                                         *)
(* Last, the loops of compact() (MCFreeListAllocator) compute Compacted.   *)
(* While page d is scanned, the headers behind the block at the offset are *)
(* as Compacted leaves them, that block reaches to some header e with no   *)
(* survivor in between, and from e on nothing has changed (Midway).  Each  *)
(* turn moves e by one block, which bounds the number of turns.            *)
(***************************************************************************)
EXTENDS MCFreeListAllocator, TLAPS, WellFoundedInduction, FiniteSetTheorems

-----------------------------------------------------------------------------
(* Arithmetic *)

\* Integer division by a positive number, in the form the provers can use.
LEMMA DivMod ==
  ASSUME NEW x \in Nat, NEW a \in Nat \ {0}
  PROVE  /\ x \div a \in Nat /\ (x % a) \in 0 .. (a - 1)
         /\ x = (a * (x \div a)) + (x % a)
BY Z3

\* A multiple of a leaves no remainder by a.
LEMMA MulMod ==
  ASSUME NEW q \in Nat, NEW a \in Nat \ {0}
  PROVE  (q * a) % a = 0
BY Z3

\* A multiple of a multiple of 8 is a multiple of 8.
LEMMA MulOfEight ==
  ASSUME NEW q \in Nat, NEW a \in Nat \ {0}, a % 8 = 0
  PROVE  (q * a) % 8 = 0
<1>1. PICK k \in Nat : a = 8 * k
  <2>1. a = (8 * (a \div 8)) + (a % 8) /\ a \div 8 \in Nat BY DivMod
  <2> QED BY <2>1
<1>2. q * (8 * k) = (q * k) * 8 BY Z3
<1>3. q * k \in Nat OBVIOUS
<1> QED BY <1>1, <1>2, <1>3, MulMod

\* align_up returns the least multiple that is not below its argument.
LEMMA AlignUpIsAligned ==
  ASSUME NEW x \in Nat, NEW a \in Nat \ {0}
  PROVE  /\ AlignUp(x, a) \in Nat /\ AlignUp(x, a) >= x /\ AlignUp(x, a) < x + a
         /\ AlignUp(x, a) % a = 0
         /\ a % 8 = 0 => AlignUp(x, a) % 8 = 0
<1> DEFINE q == (x + a - 1) \div a
           k == (x + a - 1) % a
<1>0. x + a - 1 \in Nat OBVIOUS
<1>1. q \in Nat /\ k \in 0 .. (a - 1) /\ x + a - 1 = (a * q) + k BY <1>0, DivMod
<1>2. AlignUp(x, a) = q * a BY DEF AlignUp
<1> HIDE DEF q, k
<1>3. (q * a) % a = 0 BY <1>1, MulMod
<1>4. a % 8 = 0 => (q * a) % 8 = 0 BY <1>1, MulOfEight
<1> QED BY <1>1, <1>2, <1>3, <1>4

\* A nonempty set of naturals has a least element.
LEMMA LeastNat ==
  ASSUME NEW S \in SUBSET Nat, S # {}
  PROVE  \E m \in S : \A n \in S : m <= n
<1>1. IsWellFoundedOn(OpToRel(<, Nat), Nat) BY NatLessThanWellFounded
<1>2. PICK m \in S : \A n \in S : ~ (<<n, m>> \in OpToRel(<, Nat))
  BY <1>1, WFMin
<1>3. \A n \in S : ~ (n < m) BY <1>2 DEF OpToRel
<1> QED BY <1>3
-----------------------------------------------------------------------------
(* Heaps *)

\* Pages lie apart and start on a block boundary (from ParentBalance).
PagesApart(h) ==
  /\ \A d \in h.pages : d % MIN_ALIGN = 0
  /\ \A c, d \in h.pages : c < d => c + PageSize < d

HeapOK(h) ==
  HeapTyped(h) /\ HeapTiled(h) /\ h.tree = Free(h) /\ PagesApart(h)

\* The boundary a surviving header of compact() reaches to exists, is the
\* next one, and lies in the header's own page.
LEMMA NextBoundaryIsNext ==
  ASSUME NEW h, HeapTyped(h), HeapTiled(h), PagesApart(h),
         NEW a \in Survivors(h), NEW d \in h.pages, BlockInPage(h, a, d)
  PROVE  /\ NextBoundary(h, a) \in Boundaries(h)
         /\ NextBoundary(h, a) \in Nat
         /\ End(h, a) <= NextBoundary(h, a)
         /\ NextBoundary(h, a) <= d + PageSize
         /\ \A f \in Boundaries(h) : f > a => NextBoundary(h, a) <= f
         /\ NextBoundary(h, a) = d + PageSize \/ NextBoundary(h, a) \in Survivors(h)
<1> USE LayoutAssumption DEF MIN_ALIGN, MIN_BLOCK_SIZE, HeapTyped, Blocks
<1>1. /\ a \in Blocks(h) /\ Survivors(h) \subseteq Blocks(h) /\ a \in Nat
      /\ h.size[a] \in Nat /\ End(h, a) \in Nat /\ a < End(h, a)
  BY DEF Survivors, HeapTiled, End
<1>2. Boundaries(h) \subseteq Nat
  BY <1>1 DEF Boundaries
<1> DEFINE Later == {f \in Boundaries(h) : f > a}
<1>3. d + PageSize \in Later
  BY <1>1 DEF Boundaries, BlockInPage
<1>4. PICK m \in Later : \A f \in Later : m <= f
  BY <1>2, <1>3, LeastNat
<1>5. /\ NextBoundary(h, a) \in Boundaries(h) /\ NextBoundary(h, a) > a
      /\ \A f \in Boundaries(h) : f > a => NextBoundary(h, a) <= f
  BY <1>4 DEF NextBoundary
<1> DEFINE e == NextBoundary(h, a)
<1> HIDE DEF e
<1>6. e \in Boundaries(h) /\ e > a /\ e \in Nat /\ e <= d + PageSize
      /\ \A f \in Boundaries(h) : f > a => e <= f
  BY <1>2, <1>3, <1>5 DEF e
<1>7. CASE e \in Survivors(h)
  <2>1. End(h, a) <= e
    BY <1>1, <1>6, <1>7 DEF HeapTiled
  <2> QED BY <1>6, <1>7, <2>1 DEF e
<1>8. CASE e \in {c + PageSize : c \in h.pages}
  <2>1. PICK c \in h.pages : e = c + PageSize BY <1>8
  <2>2. c = d
    BY <2>1, <1>1, <1>6 DEF PagesApart, BlockInPage
  <2> QED BY <2>1, <2>2, <1>6 DEF e, BlockInPage
<1> QED BY <1>6, <1>7, <1>8 DEF Boundaries

\* compact() leaves a well-formed heap with the same pages and used blocks,
\* each of its size, in which no free block is followed by a free block.
LEMMA CompactedOK ==
  ASSUME NEW h, HeapOK(h)
  PROVE  /\ HeapOK(Compacted(h))
         /\ Compacted(h).pages = h.pages /\ Compacted(h).used = h.used
         /\ \A a \in h.used : Compacted(h).size[a] = h.size[a]
         /\ \A a \in Free(Compacted(h)) : End(Compacted(h), a) \notin Free(Compacted(h))
                                          \/ End(Compacted(h), a) \in h.pages
<1> USE LayoutAssumption DEF MIN_ALIGN, MIN_BLOCK_SIZE, HeapOK
<1> DEFINE g == Compacted(h)
<1>1. /\ g.pages = h.pages /\ g.used = h.used
      /\ g.size = [a \in Survivors(h) |-> NextBoundary(h, a) - a]
      /\ g.tree = h.tree \cap Survivors(h)
      /\ Blocks(g) = Survivors(h)
  BY DEF Compacted, Blocks
<1> HIDE DEF g
<1>2. /\ Survivors(h) \subseteq Blocks(h) /\ Survivors(h) \subseteq Nat
      /\ h.pages \subseteq Survivors(h) /\ h.used \subseteq Survivors(h)
  BY DEF Survivors, HeapTyped
<1>3. \A a \in Blocks(h) : \E d \in h.pages : BlockInPage(h, a, d)
  BY DEF HeapTiled
<1>4. ASSUME NEW a \in Survivors(h), NEW d \in h.pages, BlockInPage(h, a, d)
      PROVE  /\ End(g, a) \in Boundaries(h) /\ End(g, a) \in Nat
             /\ End(h, a) <= End(g, a) /\ End(g, a) <= d + PageSize
             /\ \A f \in Boundaries(h) : f > a => End(g, a) <= f
             /\ End(g, a) = d + PageSize \/ End(g, a) \in Survivors(h)
  <2>1. /\ NextBoundary(h, a) \in Boundaries(h)
        /\ NextBoundary(h, a) \in Nat
        /\ End(h, a) <= NextBoundary(h, a)
        /\ NextBoundary(h, a) <= d + PageSize
        /\ \A f \in Boundaries(h) : f > a => NextBoundary(h, a) <= f
        /\ NextBoundary(h, a) = d + PageSize \/ NextBoundary(h, a) \in Survivors(h)
    BY <1>4, NextBoundaryIsNext
  <2>2. End(g, a) = NextBoundary(h, a) BY <1>1, <1>2, <2>1 DEF End
  <2> QED BY <2>1, <2>2
<1>5. \A a \in Survivors(h) : g.size[a] \in Nat /\ h.size[a] <= g.size[a]
                              /\ g.size[a] = End(g, a) - a
  <2> TAKE a \in Survivors(h)
  <2>1. PICK d \in h.pages : BlockInPage(h, a, d) BY <1>2, <1>3
  <2>2. End(g, a) \in Nat /\ End(h, a) <= End(g, a) BY <1>4, <2>1
  <2>3. NextBoundary(h, a) \in Nat BY <2>1, NextBoundaryIsNext
  <2> QED BY <1>1, <1>2, <2>2, <2>3 DEF End, HeapTyped
<1>6. HeapTyped(g)
  BY <1>1, <1>2, <1>5 DEF HeapTyped
<1>7. HeapTiled(g)
  <2>1. ASSUME NEW a \in Survivors(h)
        PROVE  /\ a % MIN_ALIGN = 0 /\ g.size[a] % MIN_ALIGN = 0
               /\ g.size[a] >= MIN_BLOCK_SIZE
               /\ \E d \in h.pages : BlockInPage(g, a, d)
    <3>1. PICK d \in h.pages : BlockInPage(h, a, d) BY <1>2, <1>3
    <3>2. a % 8 = 0 /\ h.size[a] >= 24 /\ a \in Nat /\ d \in Nat /\ h.size[a] \in Nat
      BY <1>2 DEF HeapTiled, HeapTyped
    <3>3. BlockInPage(g, a, d)
      BY <1>1, <1>4, <3>1 DEF BlockInPage
    <3>4. End(g, a) % 8 = 0
      <4>1. End(g, a) = d + PageSize \/ End(g, a) \in Survivors(h) BY <1>4, <3>1
      <4>2. \A e \in Survivors(h) : e % 8 = 0 BY <1>2 DEF HeapTiled
      <4>3. d % 8 = 0 /\ PageSize % 8 = 0 /\ d \in Nat /\ PageSize \in Nat
        BY <3>2 DEF PagesApart
      <4>4. (d + PageSize) % 8 = 0 BY <4>3
      <4> QED BY <4>1, <4>2, <4>4
    <3>5. End(g, a) \in Nat BY <1>4, <3>1
    <3> QED BY <1>5, <3>2, <3>3, <3>4, <3>5
  <2>2. ASSUME NEW a \in Survivors(h), NEW b \in Survivors(h), a < b
        PROVE  End(g, a) <= b
    <3>1. PICK d \in h.pages : BlockInPage(h, a, d) BY <1>2, <1>3
    <3> QED BY <1>4, <2>2, <3>1 DEF Boundaries
  <2> QED BY <1>1, <2>1, <2>2 DEF HeapTiled
<1>8. g.tree = Free(g)
  BY <1>1, <1>2 DEF Free
<1>9. PagesApart(g)
  BY <1>1 DEF PagesApart
<1>10. \A a \in h.used : g.size[a] = h.size[a]
  <2> TAKE a \in h.used
  <2>1. PICK d \in h.pages : BlockInPage(h, a, d) BY <1>2, <1>3
  <2>2. End(h, a) \in Boundaries(h)
    BY <2>1 DEF BlockInPage, Boundaries, Survivors
  <2>3. a \in Nat /\ h.size[a] \in Nat /\ h.size[a] >= 24
    BY <1>2 DEF HeapTiled, HeapTyped
  <2>4. End(g, a) <= End(h, a)
    BY <1>2, <1>4, <2>1, <2>2, <2>3 DEF End
  <2>5. g.size[a] \in Nat /\ h.size[a] <= g.size[a] BY <1>2, <1>5
  <2>6. a + g.size[a] <= a + h.size[a] BY <2>4 DEF End
  <2> QED BY <2>3, <2>5, <2>6
<1>11. ASSUME NEW a \in Free(g), End(g, a) \in Free(g)
       PROVE  End(g, a) \in h.pages
  <2>1. a \in Survivors(h) /\ a \notin h.used BY <1>1 DEF Free
  <2>2. PICK d \in h.pages : BlockInPage(h, a, d) BY <1>2, <1>3, <2>1
  <2> DEFINE b == End(g, a)
  <2>3. b \in Survivors(h) /\ b \notin h.used BY <1>1, <1>11 DEF Free
  <2>4. SUFFICES ASSUME b \notin h.pages PROVE FALSE OBVIOUS
  <2>5. PICK c \in h.used : End(h, c) = b BY <2>3, <2>4 DEF Survivors
  <2>6. /\ a \in Nat /\ b \in Nat /\ c \in Nat /\ h.size[c] \in Nat /\ h.size[c] >= 24
        /\ c \in Blocks(h) /\ a \in Blocks(h) /\ c # a /\ h.size[a] \in Nat /\ h.size[a] >= 24
    BY <1>2, <2>1, <2>3 DEF HeapTiled, HeapTyped
  <2>7. b > a /\ c < b
    BY <1>4, <2>1, <2>2, <2>5, <2>6 DEF End
  <2>8. CASE c < a
    BY <2>5, <2>6, <2>7, <2>8 DEF HeapTiled
  <2>9. CASE c > a
    <3>1. b <= c BY <1>4, <1>2, <2>1, <2>2, <2>9 DEF Boundaries
    <3> QED BY <3>1, <2>6, <2>7
  <2> QED BY <2>6, <2>8, <2>9
<1> QED BY <1>1, <1>6, <1>7, <1>8, <1>9, <1>10, <1>11 DEF g

\* allocate_page() adds one free block, the whole page, and disturbs nothing.
LEMMA AddPageOK ==
  ASSUME NEW h, HeapOK(h), NEW c \in Nat, c % MIN_ALIGN = 0,
         \A d \in h.pages : c + PAGE_HEADER + PageSize <= Chunk(d)
                            \/ d + PageSize <= c
  PROVE  /\ HeapOK(AddPage(h, c))
         /\ AddPage(h, c).pages = h.pages \cup {c + PAGE_HEADER}
         /\ AddPage(h, c).used = h.used
         /\ \A a \in h.used : AddPage(h, c).size[a] = h.size[a]
<1> USE LayoutAssumption DEF MIN_ALIGN, MIN_BLOCK_SIZE, PAGE_HEADER, Chunk, HeapOK
<1> DEFINE g == AddPage(h, c)
           p == c + 32
<1>1. /\ g.pages = h.pages \cup {p} /\ g.used = h.used
      /\ g.tree = h.tree \cup {p}
      /\ Blocks(g) = Blocks(h) \cup {p}
      /\ \A a \in Blocks(g) : g.size[a] = IF a = p THEN PageSize ELSE h.size[a]
  BY DEF AddPage, Blocks, Put
<1> HIDE DEF g
<1>2. /\ p \in Nat /\ p % 8 = 0 /\ h.pages \subseteq Nat
      /\ \A d \in h.pages : p + PageSize < d \/ d + PageSize < p
  BY DEF HeapTyped, Blocks
<1>3. \A a \in Blocks(h) :
        /\ a \in Nat /\ h.size[a] \in Nat /\ h.size[a] >= 24
        /\ End(h, a) < p \/ p + PageSize < a
        /\ a # p
  <2> TAKE a \in Blocks(h)
  <2>1. PICK d \in h.pages : BlockInPage(h, a, d) BY DEF HeapTiled
  <2>2. a \in Nat /\ h.size[a] \in Nat /\ h.size[a] >= 24 BY DEF HeapTiled, HeapTyped
  <2> QED BY <1>2, <2>1, <2>2 DEF BlockInPage, End
<1>4. \A a \in Blocks(h) : g.size[a] = h.size[a] /\ End(g, a) = End(h, a)
  BY <1>1, <1>3 DEF End
<1>5. g.size[p] = PageSize /\ End(g, p) = p + PageSize
  BY <1>1 DEF End
<1>6. HeapTyped(g)
  <2>1. \A a \in Blocks(g) : g.size[a] \in Nat BY <1>1, <1>3, <1>4, <1>5
  <2>2. g.size \in [Blocks(g) -> Nat]
    <3>1. g.size = [a \in Blocks(g) |-> g.size[a]] BY DEF g, AddPage, Put, Blocks
    <3> QED BY <2>1, <3>1
  <2> QED BY <1>1, <1>2, <2>2 DEF HeapTyped
<1>7. HeapTiled(g)
  <2>1. ASSUME NEW a \in Blocks(h)
        PROVE  \E d \in g.pages : BlockInPage(g, a, d)
    <3>1. PICK d \in h.pages : BlockInPage(h, a, d) BY DEF HeapTiled
    <3> QED BY <1>1, <1>4, <3>1 DEF BlockInPage
  <2>2. BlockInPage(g, p, p) BY <1>2, <1>5 DEF BlockInPage
  <2>3. \A a \in Blocks(g) :
          /\ a % 8 = 0 /\ g.size[a] % 8 = 0 /\ g.size[a] >= 24
          /\ \E d \in g.pages : BlockInPage(g, a, d)
    BY <1>1, <1>2, <1>4, <1>5, <2>1, <2>2 DEF HeapTiled
  <2>4. \A a, b \in Blocks(g) : a < b => End(g, a) <= b
    <3> TAKE a, b \in Blocks(g)
    <3>1. CASE a = p /\ b = p BY <1>2, <3>1
    <3>2. CASE a = p /\ b \in Blocks(h) 
      <4>1. /\ b \in Nat /\ h.size[b] \in Nat /\ h.size[b] >= 24
            /\ End(h, b) < p \/ p + PageSize < b
        BY <1>3, <3>2
      <4>2. a < b => p + PageSize < b BY <1>2, <3>2, <4>1 DEF End
      <4> QED BY <1>2, <1>5, <3>2, <4>1, <4>2
    <3>3. CASE a \in Blocks(h) /\ b = p
      <4>1. a \in Nat /\ h.size[a] \in Nat /\ (End(h, a) < p \/ p + PageSize < a)
        BY <1>3, <3>3
      <4>2. End(h, a) \in Nat BY <4>1 DEF End
      <4>3. End(g, a) = End(h, a) BY <1>4, <3>3
      <4> QED BY <1>2, <3>3, <4>1, <4>2, <4>3
    <3>4. CASE a \in Blocks(h) /\ b \in Blocks(h) BY <1>4, <3>4 DEF HeapTiled
    <3> QED BY <1>1, <3>1, <3>2, <3>3, <3>4
  <2> QED BY <2>3, <2>4 DEF HeapTiled
<1>8. g.tree = Free(g)
  BY <1>1, <1>3 DEF Free, HeapTyped
<1>9. PagesApart(g)
  BY <1>1, <1>2 DEF PagesApart
<1> QED BY <1>1, <1>4, <1>6, <1>7, <1>8, <1>9 DEF g, HeapTyped

-----------------------------------------------------------------------------
(* Serving a request from a block *)

\* What allocate_align makes of its arguments, when no width cuts them.
LEMMA RequestArithmetic ==
  ASSUME RequestsFit, NEW r \in Requests
  PROVE  /\ r.sz \in Nat
         /\ EffAlign(r) \in Nat /\ EffAlign(r) >= 8 /\ EffAlign(r) % 8 = 0
         /\ EffSize(r) \in Nat /\ EffSize(r) >= 16 /\ EffSize(r) % 8 = 0
         /\ EffSize(r) >= r.sz
         /\ MinNeed(r) \in Nat
         /\ MinNeed(r) >= 8 + EffSize(r) + (EffAlign(r) - 8)
         /\ MinNeed(r) = 8 + EffSize(r) + Slack(r)
         /\ EffAlign(r) = 8 => MinNeed(r) = 8 + EffSize(r)
         /\ EffAlign(r) + 40 < FALLBACK_MOD
         /\ \A x \in Nat : x % EffAlign(r) = 0 /\ r.align \in Nat => x % r.align = 0
<1> USE LayoutAssumption DEF MIN_ALIGN, HDR_SIZE, HDR_DIFF, LARGE_BLOCK_HEADER_SIZE
<1>1. r.sz \in Nat /\ r.align \in Nat \ {0} OBVIOUS
<1>2. EffAlign(r) \in Nat /\ EffAlign(r) >= 8 /\ EffAlign(r) % 8 = 0
  BY <1>1 DEF EffAlign, Greater
<1>3. Greater(r.sz, 16) \in Nat /\ Greater(r.sz, 16) >= 16 /\ Greater(r.sz, 16) >= r.sz
  BY <1>1 DEF Greater
<1>4. EffSize(r) \in Nat /\ EffSize(r) >= 16 /\ EffSize(r) % 8 = 0 /\ EffSize(r) >= r.sz
  <2> DEFINE x == Greater(r.sz, 16)
  <2>1. EffSize(r) = AlignUp(x, 8) BY DEF EffSize
  <2> HIDE DEF x
  <2>2. x \in Nat /\ x >= 16 /\ x >= r.sz BY <1>3 DEF x
  <2>3. /\ AlignUp(x, 8) \in Nat /\ AlignUp(x, 8) >= x /\ AlignUp(x, 8) % 8 = 0
    BY <2>2, AlignUpIsAligned
  <2> QED BY <1>1, <2>1, <2>2, <2>3
<1>5. Slack(r) \in Nat /\ Slack(r) < EffAlign(r) /\ Slack(r) >= EffAlign(r) - 8
  BY <1>2 DEF Slack
<1>6. 8 + EffSize(r) + Slack(r) < MEMSIZE_MOD /\ EffAlign(r) + 40 < FALLBACK_MOD
  BY <1>2, <1>4, <1>5 DEF RequestsFit
<1>7. MinNeed(r) = 8 + EffSize(r) + Slack(r)
  BY <1>4, <1>5, <1>6 DEF MinNeed
<1>8. \A x \in Nat : x % EffAlign(r) = 0 => x % r.align = 0
  <2>1. CASE r.align \in {1, 2, 4}
    BY <2>1 DEF EffAlign, Greater
  <2>2. CASE r.align % 8 = 0
    BY <1>1, <2>2 DEF EffAlign, Greater
  <2> QED BY <2>1, <2>2
<1>9. EffAlign(r) = 8 => Slack(r) = 0 BY DEF Slack
<1> QED BY <1>1, <1>2, <1>4, <1>5, <1>6, <1>7, <1>8, <1>9

\* Where the pieces of a carved block lie: the user pointer is aligned, its
\* header is at most three words below it, the region fits, and the front and
\* back pieces are blocks.
LEMMA CarveArithmetic ==
  ASSUME RequestsFit, NEW r \in Requests, NEW h, NEW b \in Nat, b % 8 = 0,
         h.size[b] \in Nat, h.size[b] % 8 = 0, h.size[b] >= MinNeed(r)
  PROVE  /\ UserPtr(b, r) \in Nat /\ UserPtr(b, r) % r.align = 0
         /\ Start(b, r) \in Nat /\ Start(b, r) % 8 = 0
         /\ Start(b, r) + 8 <= UserPtr(b, r) /\ UserPtr(b, r) < Start(b, r) + 32
         /\ ~ SplitsFront(b, r) => Start(b, r) = b
         /\ SplitsFront(b, r) => /\ Start(b, r) = b + Padding(b, r)
                                 /\ Padding(b, r) \in Nat /\ Padding(b, r) >= 24
                                 /\ Padding(b, r) % 8 = 0
         /\ BlockSize(h, b, r) \in Nat /\ BlockSize(h, b, r) % 8 = 0
         /\ BlockSize(h, b, r) >= 24
         /\ Start(b, r) + BlockSize(h, b, r) = b + h.size[b]
         /\ Target(b, r) \in Nat /\ Target(b, r) % 8 = 0 /\ Target(b, r) >= 24
         /\ UserPtr(b, r) + EffSize(r) <= Start(b, r) + BlockSize(h, b, r)
         /\ UserPtr(b, r) + EffSize(r) <= Start(b, r) + Target(b, r)
         /\ SplitsBack(h, b, r) =>
              /\ Rem(h, b, r) \in Nat /\ Rem(h, b, r) >= 24 /\ Rem(h, b, r) % 8 = 0
              /\ Split(b, r) = Start(b, r) + Target(b, r)
              /\ BlockSize(h, b, r) = Target(b, r) + Rem(h, b, r)
<1> USE LayoutAssumption DEF MIN_ALIGN, HDR_SIZE, MIN_BLOCK_SIZE
<1> DEFINE A == EffAlign(r)
           S == EffSize(r)
           u == UserPtr(b, r)
           s == Start(b, r)
           z == h.size[b]
<1>1. /\ A \in Nat /\ A >= 8 /\ A % 8 = 0
      /\ S \in Nat /\ S >= 16 /\ S % 8 = 0
      /\ MinNeed(r) \in Nat /\ MinNeed(r) >= S + A
      /\ \A x \in Nat : x % A = 0 => x % r.align = 0
      /\ r.align \in Nat \ {0}
  BY RequestArithmetic
<1> HIDE DEF A, S
<1>2. u = AlignUp(b + 8, A) BY DEF UserPtr, A
<1>3. u \in Nat /\ u >= b + 8 /\ u < b + 8 + A /\ u % A = 0 /\ u % 8 = 0
  <2> DEFINE x == b + 8
  <2>1. x \in Nat /\ A \in Nat \ {0} BY <1>1
  <2> HIDE DEF x
  <2>2. /\ AlignUp(x, A) \in Nat /\ AlignUp(x, A) >= x /\ AlignUp(x, A) < x + A
        /\ AlignUp(x, A) % A = 0 /\ AlignUp(x, A) % 8 = 0
    BY <1>1, <2>1, AlignUpIsAligned
  <2>3. u = AlignUp(x, A) BY <1>2 DEF x
  <2> HIDE DEF u
  <2> QED BY <2>2, <2>3 DEF x
<1>0. z \in Nat /\ z % 8 = 0 /\ z >= MinNeed(r) OBVIOUS
<1>4. u % r.align = 0 BY <1>1, <1>3
<1> DEFINE p == Padding(b, r)
<1>5. p = u - b - 8 BY DEF Padding
<1> HIDE DEF u
<1>6. p \in Nat /\ p % 8 = 0 /\ p <= A - 8
  <2>1. p \in Nat /\ p < A /\ p % 8 = 0 BY <1>1, <1>3, <1>5
  <2> QED BY <1>1, <2>1
<1>7. s = (IF p >= 24 THEN b + p ELSE b) /\ (SplitsFront(b, r) <=> p >= 24)
  BY DEF Start, SplitsFront
<1> HIDE DEF p, s
<1>8. s \in Nat /\ s % 8 = 0 /\ s + 8 <= u /\ u < s + 32 /\ s >= b /\ s - b <= p
  <2>1. CASE p >= 24 BY <1>3, <1>5, <1>6, <1>7, <2>1
  <2>2. CASE p < 24 BY <1>3, <1>5, <1>6, <1>7, <2>2
  <2> QED BY <1>6, <2>1, <2>2
<1> DEFINE B == BlockSize(h, b, r)
<1>9. B = z - (s - b) BY DEF BlockSize, s
<1> HIDE DEF B, z
<1>10. z >= S + A BY <1>0, <1>1
<1>11. /\ B \in Nat /\ B % 8 = 0 /\ B >= 24 /\ s + B = b + z
       /\ u + S <= s + B
  <2>1. B >= S + 8 BY <1>0, <1>1, <1>6, <1>8, <1>9, <1>10
  <2>2. B \in Nat /\ B % 8 = 0 BY <1>0, <1>1, <1>8, <1>9, <2>1
  <2>3. u + S <= b + z BY <1>0, <1>1, <1>3, <1>5, <1>6, <1>10
  <2>4. s + B = b + z BY <1>0, <1>8, <1>9
  <2> QED BY <1>1, <2>1, <2>2, <2>3, <2>4
<1>12. Used(b, r) = u + S - s
  <2>1. u + S - s \in Nat BY <1>1, <1>3, <1>8
  <2>2. 8 + S + A < MEMSIZE_MOD BY DEF RequestsFit, S, A
  <2>3. u + S - s <= 8 + S + A - 8
    <3>1. CASE p >= 24 BY <1>1, <1>5, <1>7, <1>6, <1>3, <3>1
    <3>2. CASE p < 24 BY <1>1, <1>5, <1>7, <1>6, <1>3, <3>2
    <3> QED BY <1>6, <3>1, <3>2
  <2>4. u + S - s < MEMSIZE_MOD BY <1>1, <2>1, <2>2, <2>3
  <2>5. Used(b, r) = (u + S - s) % MEMSIZE_MOD BY DEF Used, u, s, S
  <2> QED BY <2>1, <2>4, <2>5
<1> DEFINE T == Target(b, r)
           m == Greater(Used(b, r), MinNeed(r))
<1>13. m \in Nat /\ m >= u + S - s /\ m >= 24
  BY <1>1, <1>3, <1>8, <1>12 DEF Greater
<1>14. T = AlignUp(m, 8) BY DEF Target
<1> HIDE DEF m, T
<1>15. T \in Nat /\ T % 8 = 0 /\ T >= m
  BY <1>13, <1>14, AlignUpIsAligned
<1>16. T >= 24 /\ u + S <= s + T BY <1>1, <1>3, <1>8, <1>13, <1>15
<1> DEFINE R == Rem(h, b, r)
<1>17. R = (IF B > T THEN B - T ELSE 0) /\ (SplitsBack(h, b, r) <=> R >= 24)
  BY DEF Rem, B, T, SplitsBack
<1> HIDE DEF R
<1>18. R >= 24 => R \in Nat /\ R % 8 = 0 /\ B = T + R
  BY <1>11, <1>15, <1>17
<1>19. Split(b, r) = s + T BY DEF Split, s, T
<1>20. SplitsFront(b, r) => s = b + p /\ p >= 24 BY <1>7
<1>21. ~ SplitsFront(b, r) => s = b BY <1>7
<1> QED BY <1>3, <1>4, <1>6, <1>8, <1>11, <1>15, <1>16, <1>17, <1>18, <1>19, <1>20, <1>21
        DEF u, s, z, S, B, T, R, p

\* Serving r from the linked block b leaves a well-formed heap: at most two
\* free pieces of b are linked again, the rest becomes one used block that
\* holds the region returned, and no other block changes.
LEMMA CarvedOK ==
  ASSUME RequestsFit, NEW r \in Requests, NEW h, HeapOK(h),
         NEW b \in h.tree, h.size[b] >= MinNeed(r)
  PROVE  /\ HeapOK(Carved(h, b, r))
         /\ Carved(h, b, r).pages = h.pages
         /\ Carved(h, b, r).used = h.used \cup {Start(b, r)}
         /\ Start(b, r) \notin h.used /\ Start(b, r) \in Nat
         /\ \A a \in h.used : Carved(h, b, r).size[a] = h.size[a]
         /\ UserPtr(b, r) \in Nat /\ UserPtr(b, r) % r.align = 0
         /\ Start(b, r) + 8 <= UserPtr(b, r) /\ UserPtr(b, r) < Start(b, r) + 32
         /\ UserPtr(b, r) + EffSize(r) <= End(Carved(h, b, r), Start(b, r))
<1> USE LayoutAssumption DEF MIN_ALIGN, MIN_BLOCK_SIZE, HeapOK
<1> DEFINE g == Carved(h, b, r)
           s == Start(b, r)
           t == Split(b, r)
           p == Padding(b, r)
           B == BlockSize(h, b, r)
           R == Rem(h, b, r)
           T == Target(b, r)
           e == b + h.size[b]
           front == SplitsFront(b, r)
           back  == SplitsBack(h, b, r)
<1>1. /\ b \in Blocks(h) /\ b \notin h.used /\ b \in Nat /\ b % 8 = 0
      /\ h.size[b] \in Nat /\ h.size[b] % 8 = 0 /\ h.size[b] >= 24
      /\ e \in Nat /\ e = End(h, b)
  BY DEF Free, HeapTyped, HeapTiled, End
<1>2. /\ UserPtr(b, r) \in Nat /\ UserPtr(b, r) % r.align = 0
      /\ s \in Nat /\ s % 8 = 0
      /\ s + 8 <= UserPtr(b, r) /\ UserPtr(b, r) < s + 32
      /\ ~ front => s = b
      /\ front => s = b + p /\ p \in Nat /\ p >= 24 /\ p % 8 = 0
      /\ B \in Nat /\ B % 8 = 0 /\ B >= 24 /\ s + B = e
      /\ T \in Nat /\ T % 8 = 0 /\ T >= 24
      /\ UserPtr(b, r) + EffSize(r) <= s + B
      /\ UserPtr(b, r) + EffSize(r) <= s + T
      /\ back => R \in Nat /\ R >= 24 /\ R % 8 = 0 /\ t = s + T /\ B = T + R
  BY <1>1, CarveArithmetic
<1> HIDE DEF g, s, t, p, B, R, T, e, front, back
<1>4. /\ b <= s /\ s < e
      /\ back => s + 24 <= t /\ t + R = e /\ t \in Nat /\ t % 8 = 0 /\ t + 24 <= e
      /\ front => b + 24 <= s
  BY <1>1, <1>2
<1>3. /\ g.pages = h.pages /\ g.used = h.used \cup {s}
      /\ g.tree = (h.tree \ {b}) \cup (IF front THEN {b} ELSE {})
                                 \cup (IF back THEN {t} ELSE {})
      /\ Blocks(g) = Blocks(h) \cup {s} \cup (IF back THEN {t} ELSE {})
      /\ g.size[s] = IF back THEN B - R ELSE B
      /\ back => g.size[t] = R
      /\ front => g.size[b] = p
      /\ \A a \in Blocks(h) : a # s /\ a # b /\ ~ (back /\ a = t) => g.size[a] = h.size[a]
      /\ g.size = [a \in Blocks(g) |-> g.size[a]]
  <2> DEFINE bk == IF back THEN {t} ELSE {}
             fr == IF front THEN {b} ELSE {}
             f  == [a \in Blocks(h) \cup {s} \cup bk |->
                      CASE a = s -> B - (IF bk # {} THEN R ELSE 0)
                        [] a \in bk -> R
                        [] a \in fr -> p
                        [] OTHER -> h.size[a]]
  <2>1. /\ g.pages = h.pages /\ g.used = h.used \cup {s}
        /\ g.tree = (h.tree \ {b}) \cup fr \cup bk /\ g.size = f
    BY DEF Carved, g, s, t, p, B, R, front, back
  <2>0. (back => t # s /\ t # b) /\ (front => b # s)
    <3>1. s \in Nat /\ b \in Nat /\ b <= s BY <1>1, <1>2, <1>4
    <3>2. back => t \in Nat /\ s + 24 <= t BY <1>4
    <3>3. front => b + 24 <= s BY <1>4
    <3>4. back => t # s /\ t # b BY <3>1, <3>2
    <3> QED BY <3>1, <3>3, <3>4
  <2>2. bk # {} <=> back OBVIOUS
  <2>3. f[s] = IF back THEN B - R ELSE B
    <3>1. f[s] = B - (IF bk # {} THEN R ELSE 0) BY <2>0
    <3> QED BY <2>2, <3>1, <1>2
  <2>4. back => f[t] = R BY <2>0
  <2>5. front => f[b] = p BY <1>1, <2>0
  <2>6. \A a \in Blocks(h) : a # s /\ a # b /\ ~ (back /\ a = t) => f[a] = h.size[a]
    OBVIOUS
  <2>7. f = [a \in Blocks(h) \cup {s} \cup bk |-> f[a]] OBVIOUS
  <2>8. Blocks(g) = Blocks(h) \cup {s} \cup bk BY <2>1 DEF Blocks
  <2> HIDE DEF f
  <2> QED BY <2>1, <2>3, <2>4, <2>5, <2>6, <2>7, <2>8
<1>5. \A a \in Blocks(h) :
        /\ a \in Nat /\ h.size[a] \in Nat /\ h.size[a] >= 24 /\ a % 8 = 0
        /\ h.size[a] % 8 = 0
        /\ a # b => a + h.size[a] <= b \/ a >= e
  BY <1>1 DEF HeapTyped, HeapTiled, End
<1>6. \A a \in Blocks(h) : a # b => a # s /\ (back => a # t) /\ g.size[a] = h.size[a]
  <2> SUFFICES ASSUME NEW a \in Blocks(h), a # b
               PROVE  a # s /\ (back => a # t) /\ g.size[a] = h.size[a]
    OBVIOUS
  <2>1. /\ a \in Nat /\ h.size[a] \in Nat /\ h.size[a] >= 24
        /\ a + h.size[a] <= b \/ a >= e
    BY <1>5
  <2>2. a # s /\ (back => a # t) BY <1>1, <1>2, <1>4, <2>1
  <2> QED BY <1>3, <2>2
<1>7. /\ g.size[s] = (IF back THEN T ELSE B) /\ g.size[s] >= 24 /\ g.size[s] % 8 = 0
      /\ g.size[s] \in Nat
      /\ s + g.size[s] = IF back THEN t ELSE e
      /\ back => g.size[t] = R
      /\ front => g.size[b] = p
  BY <1>1, <1>2, <1>3, <1>4
<1>8. \A a \in h.used : a # b /\ a # s /\ g.size[a] = h.size[a]
  BY <1>1, <1>6 DEF HeapTyped
<1>9. HeapTyped(g)
  <2>1. \A a \in Blocks(g) : a \in Nat /\ g.size[a] \in Nat
    <3> TAKE a \in Blocks(g)
    <3>1. CASE a = s BY <1>2, <1>7, <3>1
    <3>2. CASE back /\ a = t BY <1>2, <1>4, <1>7, <3>2
    <3>3. CASE a = b /\ a # s BY <1>1, <1>2, <1>7, <3>3
    <3>4. CASE a \in Blocks(h) /\ a # b BY <1>5, <1>6, <3>4
    <3> QED BY <1>3, <3>1, <3>2, <3>3, <3>4
  <2>2. g.size \in [Blocks(g) -> Nat] BY <1>3, <2>1
  <2> QED BY <1>1, <1>3, <2>1, <2>2 DEF HeapTyped
<1>10. \A a \in Blocks(g) :
         \/ a = s
         \/ back /\ a = t
         \/ front /\ a = b /\ a # s
         \/ a \in Blocks(h) /\ a # b /\ a # s /\ (back => a # t)
  BY <1>2, <1>3, <1>6
<1>11. HeapTiled(g)
  <2> PICK d \in h.pages : BlockInPage(h, b, d) BY <1>1 DEF HeapTiled
  <2>0. /\ d \in Nat /\ d <= b /\ e <= d + PageSize
        /\ e = d + PageSize \/ (e \in Blocks(h) /\ e # b)
    BY <1>1, <1>2, <1>4 DEF BlockInPage, HeapTyped
  <2>1. ASSUME NEW a \in Blocks(g)
        PROVE  /\ a % 8 = 0 /\ g.size[a] % 8 = 0 /\ g.size[a] >= 24
               /\ \E c \in g.pages : BlockInPage(g, a, c)
    <3>1. CASE a = s
      <4>1. BlockInPage(g, s, d)
        BY <1>1, <1>2, <1>3, <1>4, <1>7, <2>0 DEF BlockInPage, End
      <4> QED BY <1>2, <1>3, <1>7, <3>1, <4>1
    <3>2. CASE back /\ a = t
      <4>1. BlockInPage(g, t, d)
        BY <1>1, <1>2, <1>3, <1>4, <1>7, <2>0, <3>2 DEF BlockInPage, End
      <4> QED BY <1>2, <1>3, <1>4, <1>7, <3>2, <4>1
    <3>3. CASE front /\ a = b /\ a # s
      <4>1. End(g, b) = s BY <1>2, <1>7, <3>3 DEF End
      <4>2. BlockInPage(g, b, d)
        BY <1>1, <1>2, <1>3, <1>4, <2>0, <4>1 DEF BlockInPage
      <4> QED BY <1>1, <1>2, <1>3, <1>7, <3>3, <4>2
    <3>4. CASE a \in Blocks(h) /\ a # b
      <4>1. PICK c \in h.pages : BlockInPage(h, a, c) BY <3>4 DEF HeapTiled
      <4>2. End(g, a) = End(h, a) BY <1>6, <3>4 DEF End
      <4>3. BlockInPage(g, a, c) BY <1>3, <4>1, <4>2 DEF BlockInPage
      <4> QED BY <1>3, <1>5, <1>6, <3>4, <4>3
    <3> QED BY <1>10, <3>1, <3>2, <3>3, <3>4
  <2>2. ASSUME NEW a \in Blocks(g), NEW c \in Blocks(g), a < c
        PROVE  End(g, a) <= c
    <3>1. \A x \in Blocks(g) : x \in Nat BY <1>9 DEF HeapTyped
    <3>2. CASE a \in Blocks(h) /\ a # b
      <4>1. /\ End(g, a) = a + h.size[a] /\ h.size[a] \in Nat
            /\ a + h.size[a] <= b \/ a >= e
        BY <1>5, <1>6, <3>2 DEF End
      <4>0. a \in Nat /\ c \in Nat /\ a < c BY <2>2, <3>1
      <4>2. CASE c \in Blocks(h)
        <5>1. End(h, a) <= c BY <2>2, <3>2, <4>2 DEF HeapTiled
        <5> QED BY <4>1, <5>1 DEF End
      <4>3. CASE c = s
        <5>1. ~ (a >= e) BY <1>1, <1>2, <1>4, <4>0, <4>3
        <5> QED BY <1>1, <1>2, <1>4, <4>0, <4>1, <4>3, <5>1
      <4>4. CASE back /\ c = t
        <5>0. t \in Nat /\ t + 24 <= e /\ e \in Nat BY <1>1, <1>4, <4>4
        <5>1. ~ (a >= e) BY <5>0, <4>0, <4>4
        <5> QED BY <1>1, <1>2, <1>4, <4>0, <4>1, <4>4, <5>1
      <4> QED BY <1>3, <4>2, <4>3, <4>4
    <3>3. CASE a = s
      <4>1. End(g, a) = IF back THEN t ELSE e BY <1>7, <3>3 DEF End
      <4>2. CASE c \in Blocks(h) /\ c # b
        <5>1. c >= e \/ c < b
          <6>1. c \in Nat /\ h.size[c] \in Nat /\ h.size[c] >= 24
                /\ (c + h.size[c] <= b \/ c >= e)
            BY <1>5, <4>2
          <6> QED BY <1>1, <6>1
        <5> QED BY <1>1, <1>2, <1>4, <2>2, <3>1, <3>3, <4>1, <5>1
      <4>3. CASE c = b \/ c = s BY <1>1, <1>2, <1>4, <2>2, <3>3, <4>3
      <4>4. CASE back /\ c = t BY <4>1, <4>4, <1>4
      <4> QED BY <1>3, <4>2, <4>3, <4>4
    <3>4. CASE back /\ a = t
      <4>1. End(g, a) = e BY <1>4, <1>7, <3>4 DEF End
      <4>2. CASE c \in Blocks(h) /\ c # b
        <5>1. /\ c \in Nat /\ h.size[c] \in Nat /\ h.size[c] >= 24
              /\ (c + h.size[c] <= b \/ c >= e)
          BY <1>5, <4>2
        <5> QED BY <1>1, <1>2, <1>4, <2>2, <3>4, <4>1, <5>1
      <4>3. CASE c = b \/ c = s \/ c = t BY <1>1, <1>2, <1>4, <2>2, <3>4, <4>3
      <4> QED BY <1>3, <4>2, <4>3
    <3>5. CASE front /\ a = b /\ a # s
      <4>1. End(g, a) = s BY <1>2, <1>7, <3>5 DEF End
      <4>2. CASE c \in Blocks(h) /\ c # b
        <5>1. /\ c \in Nat /\ h.size[c] \in Nat /\ h.size[c] >= 24
              /\ (c + h.size[c] <= b \/ c >= e)
          BY <1>5, <4>2
        <5> QED BY <1>1, <1>2, <1>4, <2>2, <3>5, <4>1, <5>1
      <4>3. CASE c = b BY <1>1, <2>2, <3>5, <4>3
      <4>4. CASE c = s \/ (back /\ c = t) BY <1>1, <1>2, <1>4, <4>1, <4>4
      <4> QED BY <1>3, <4>2, <4>3, <4>4
    <3> QED BY <1>10, <3>2, <3>3, <3>4, <3>5
  <2> QED BY <2>1, <2>2 DEF HeapTiled
<1>12. g.tree = Free(g)
  <2>1. b = s => ~ front BY <1>1, <1>2
  <2>2. back => t # s /\ t # b /\ t \notin h.used /\ t \notin h.tree
    BY <1>1, <1>2, <1>4, <1>6 DEF HeapTyped
  <2>3. s # b => s \notin h.tree BY <1>6 DEF HeapTyped
  <2>4. s # b => front BY <1>2
  <2> QED BY <1>1, <1>3, <2>1, <2>2, <2>3, <2>4 DEF Free
<1>13. PagesApart(g) BY <1>3 DEF PagesApart
<1>14. UserPtr(b, r) + EffSize(r) <= End(g, s)
  BY <1>2, <1>7 DEF End
<1> QED BY <1>2, <1>3, <1>8, <1>9, <1>11, <1>12, <1>13, <1>14 DEF g, s


-----------------------------------------------------------------------------
(* States *)

Inv == TypeOK /\ Tiling /\ TreeIsFree /\ FallbackFindsHeader /\ ParentBalance

\* The chunks of the parent keep the pages apart, so a state's heap meets the
\* assumptions of the lemmas above.
LEMMA HeapOKOfBalance ==
  ASSUME NEW h, HeapTyped(h), HeapTiled(h), h.tree = Free(h),
         NEW held, NEW chunks, Balanced(held, h.pages, chunks)
  PROVE  HeapOK(h)
<1> USE LayoutAssumption DEF MIN_ALIGN, PAGE_HEADER, Chunk
<1>1. \A d \in h.pages : d \in Nat /\ d % 8 = 0
  BY DEF HeapTyped, HeapTiled
<1>2. ASSUME NEW c \in h.pages, NEW d \in h.pages, c < d
      PROVE  c + PageSize < d
  <2>1. /\ c - 32 \in DOMAIN held /\ d - 32 \in DOMAIN held
        /\ held[c - 32] = 32 + PageSize
    BY DEF Balanced
  <2>2. c - 32 < d - 32 BY <1>1, <1>2
  <2>3. c - 32 + held[c - 32] <= d - 32 BY <2>1, <2>2 DEF Balanced
  <2> QED BY <1>1, <2>1, <2>3
<1> QED BY <1>1, <1>2 DEF HeapOK, PagesApart

\* The used blocks of the pages and the large chunks are pairwise disjoint.
LEMMA ExtentsApart ==
  ASSUME NEW h, HeapOK(h), NEW held, NEW chunks, Balanced(held, h.pages, chunks),
         DOMAIN chunks \subseteq Nat, chunks \in [DOMAIN chunks -> Nat],
         NEW x \in h.used \cup DOMAIN chunks, NEW y \in h.used \cup DOMAIN chunks, x < y
  PROVE  Extent(h, chunks, x) <= y /\ Extent(h, chunks, x) \in Nat /\ x \in Nat /\ y \in Nat
<1> USE LayoutAssumption DEF MIN_ALIGN, MIN_BLOCK_SIZE, PAGE_HEADER, Chunk, HeapOK
<1>1. ASSUME NEW a \in h.used
      PROVE  /\ a \in Nat /\ h.size[a] \in Nat /\ a \in Blocks(h)
             /\ \E d \in h.pages : d \in Nat /\ d <= a /\ a + h.size[a] <= d + PageSize
             /\ a + h.size[a] = End(h, a)
             /\ h.size[a] >= 24
  BY DEF HeapTyped, HeapTiled, BlockInPage, End
<1>2. ASSUME NEW c \in DOMAIN chunks, NEW d \in h.pages, d \in Nat
      PROVE  /\ c \in Nat /\ chunks[c] \in Nat
             /\ c + chunks[c] <= d - 32 \/ d + PageSize <= c
  <2>1. /\ c \in Nat /\ chunks[c] \in Nat /\ c # d - 32
        /\ c \in DOMAIN held /\ d - 32 \in DOMAIN held
        /\ held[c] = chunks[c] /\ held[d - 32] = 32 + PageSize
    BY DEF Balanced
  <2>2. c < d - 32 => c + chunks[c] <= d - 32 BY <2>1 DEF Balanced
  <2>3. d - 32 < c => d - 32 + (32 + PageSize) <= c BY <2>1 DEF Balanced
  <2> QED BY <1>2, <2>1, <2>2, <2>3
<1>3. ASSUME NEW a \in h.used, a \in DOMAIN chunks PROVE FALSE
  <2>1. PICK d \in h.pages : d \in Nat /\ d <= a /\ a + h.size[a] <= d + PageSize
    BY <1>1
  <2> QED BY <1>1, <1>2, <1>3, <2>1
<1>4. CASE x \in h.used /\ y \in h.used
  <2>1. Extent(h, chunks, x) = End(h, x) BY <1>3, <1>4 DEF Extent
  <2>2. End(h, x) <= y BY <1>1, <1>4 DEF HeapTiled
  <2> QED BY <1>1, <1>4, <2>1, <2>2
<1>5. CASE x \in h.used /\ y \in DOMAIN chunks
  <2>1. Extent(h, chunks, x) = End(h, x) BY <1>3, <1>5 DEF Extent
  <2>2. PICK d \in h.pages : d \in Nat /\ d <= x /\ x + h.size[x] <= d + PageSize
    BY <1>1, <1>5
  <2>3. y \in Nat /\ chunks[y] \in Nat /\ (y + chunks[y] <= d - 32 \/ d + PageSize <= y)
    BY <1>2, <1>5, <2>2
  <2>4. x \in Nat /\ h.size[x] \in Nat /\ x + h.size[x] = End(h, x) BY <1>1, <1>5
  <2> QED BY <2>1, <2>2, <2>3, <2>4
<1>6. CASE x \in DOMAIN chunks /\ y \in h.used
  <2>1. Extent(h, chunks, x) = x + chunks[x] BY <1>6 DEF Extent
  <2>2. PICK d \in h.pages : d \in Nat /\ d <= y /\ y + h.size[y] <= d + PageSize
    BY <1>1, <1>6
  <2>3. x \in Nat /\ chunks[x] \in Nat /\ (x + chunks[x] <= d - 32 \/ d + PageSize <= x)
    BY <1>2, <1>6, <2>2
  <2>4. y \in Nat /\ h.size[y] \in Nat /\ h.size[y] >= 24 BY <1>1, <1>6
  <2> QED BY <2>1, <2>2, <2>3, <2>4
<1>7. CASE x \in DOMAIN chunks /\ y \in DOMAIN chunks
  <2>1. Extent(h, chunks, x) = x + chunks[x] /\ x \in Nat /\ y \in Nat /\ chunks[x] \in Nat
    BY <1>7 DEF Extent
  <2>2. x + chunks[x] <= y BY <1>7 DEF Balanced
  <2> QED BY <2>1, <2>2
<1> QED BY <1>4, <1>5, <1>6, <1>7

\* The two clients of an invariant state hold disjoint regions.
LEMMA InvRegionsDisjoint == Inv => RegionsDisjoint
<1> USE LayoutAssumption DEF HDR_SIZE, LARGE_BLOCK_HEADER_SIZE
<1> SUFFICES ASSUME Inv, NEW p \in DOMAIN live, NEW q \in DOMAIN live, p < q
             PROVE  p + live[p].sz <= q
  BY DEF RegionsDisjoint
<1>1. /\ HeapOK(heap) /\ Balanced(parent, heap.pages, large)
      /\ DOMAIN large \subseteq Nat /\ large \in [DOMAIN large -> Nat]
  BY HeapOKOfBalance DEF Inv, TypeOK, Tiling, TreeIsFree, ParentBalance
<1>2. /\ p \in Nat /\ q \in Nat /\ live[p].sz \in Nat /\ live[q].sz \in Nat
      /\ fb[p] \in Nat /\ fb[q] \in Nat
  BY DEF Inv, TypeOK
<1> DEFINE x == Header(p)
           y == Header(q)
<1>3. /\ x \in heap.used \cup DOMAIN large /\ y \in heap.used \cup DOMAIN large
      /\ x < p /\ y < q
      /\ p + live[p].sz <= Extent(heap, large, x) /\ q + live[q].sz <= Extent(heap, large, y)
      /\ x # y /\ x \in Int /\ y \in Int
  BY <1>2 DEF Inv, FallbackFindsHeader, HeaderSize, Header
<1> HIDE DEF x, y
<1>4. CASE x < y
  <2>1. Extent(heap, large, x) <= y /\ Extent(heap, large, x) \in Nat /\ y \in Nat
    BY <1>1, <1>3, <1>4, ExtentsApart
  <2> QED BY <1>2, <1>3, <2>1
<1>5. CASE y < x
  <2>1. Extent(heap, large, y) <= x /\ Extent(heap, large, y) \in Nat /\ x \in Nat
    BY <1>1, <1>3, <1>5, ExtentsApart
  <2> QED BY <1>2, <1>3, <2>1
<1> QED BY <1>3, <1>4, <1>5


-----------------------------------------------------------------------------
(* Steps *)

\* The client is given one pointer it did not hold, and keeps the others.
NewPointer ==
  \E p \in DOMAIN live' \ DOMAIN live :
    /\ DOMAIN live' = DOMAIN live \cup {p}
    /\ \A q \in DOMAIN live : live'[q] = live[q]

\* Handing out a pointer into a new block or chunk hd: the fallback, which its
\* width does not cut, finds hd, and the other pointers keep their headers.
LEMMA ReturnOK ==
  ASSUME TypeOK, FallbackFindsHeader,
         NEW r \in Requests, NEW user \in Nat, NEW hd \in Nat,
         Return(user, hd, r),
         HeapOK(heap'), Balanced(parent', heap'.pages, large'),
         DOMAIN large' \subseteq Nat, large' \in [DOMAIN large' -> Nat],
         hd \notin heap.used \cup DOMAIN large,
         heap'.used \cup DOMAIN large' = (heap.used \cup DOMAIN large) \cup {hd},
         DOMAIN large \subseteq DOMAIN large', heap.used \subseteq heap'.used,
         \A x \in heap.used \cup DOMAIN large :
            Extent(heap', large', x) = Extent(heap, large, x)
            /\ HeaderSize(large', x) = HeaderSize(large, x),
         user % r.align = 0,
         hd + HeaderSize(large', hd) <= user, user - hd < FALLBACK_MOD,
         user + r.sz <= Extent(heap', large', hd)
  PROVE  /\ FallbackFindsHeader'
         /\ DOMAIN live' \subseteq Nat /\ live' \in [DOMAIN live' -> Requests]
         /\ fb' \in [DOMAIN live' -> 0 .. FALLBACK_MOD - 1]
         /\ denied' = 0
         /\ NewPointer
<1> USE LayoutAssumption DEF HDR_SIZE, LARGE_BLOCK_HEADER_SIZE
<1> DEFINE Z == heap.used \cup DOMAIN large
<1>1. /\ DOMAIN live \subseteq Nat /\ live \in [DOMAIN live -> Requests]
      /\ fb \in [DOMAIN live -> 0 .. FALLBACK_MOD - 1]
      /\ \A p \in DOMAIN live : p \in Nat /\ fb[p] \in Nat /\ live[p].sz \in Nat
                                /\ Header(p) \in Int /\ live[p] \in Requests
  BY DEF TypeOK, Header
<1>2. r.sz \in Nat OBVIOUS
<1>3. \A p \in DOMAIN live :
        /\ Header(p) \in Z /\ Header(p) < p
        /\ p + live[p].sz <= Extent(heap', large', Header(p))
  <2> TAKE p \in DOMAIN live
  <2>1. /\ Header(p) \in Z /\ Header(p) + HeaderSize(large, Header(p)) <= p
        /\ p + live[p].sz <= Extent(heap, large, Header(p))
    BY DEF FallbackFindsHeader
  <2>2. Header(p) < p BY <1>1, <2>1 DEF HeaderSize
  <2> QED BY <2>1, <2>2
<1>4. hd < user BY DEF HeaderSize
<1>5. user \notin DOMAIN live
  <2> SUFFICES ASSUME user \in DOMAIN live PROVE FALSE OBVIOUS
  <2> DEFINE x == Header(user)
  <2>1. /\ x \in Z /\ x < user /\ x # hd /\ x \in Int
        /\ user + live[user].sz <= Extent(heap', large', x)
        /\ live[user].sz \in Nat
    BY <1>1, <1>3
  <2> HIDE DEF x
  <2>2. CASE x < hd
    <3>1. Extent(heap', large', x) <= hd /\ Extent(heap', large', x) \in Nat
      BY <2>1, <2>2, ExtentsApart
    <3> QED BY <1>4, <2>1, <3>1
  <2>3. CASE hd < x
    <3>1. Extent(heap', large', hd) <= x /\ Extent(heap', large', hd) \in Nat
      BY <2>1, <2>3, ExtentsApart
    <3> QED BY <1>2, <2>1, <3>1
  <2> QED BY <2>1, <2>2, <2>3
<1>6. /\ DOMAIN live' = DOMAIN live \cup {user} /\ live'[user] = r
      /\ \A p \in DOMAIN live : live'[p] = live[p] /\ fb'[p] = fb[p]
      /\ fb'[user] = user - hd
      /\ DOMAIN fb' = DOMAIN live'
      /\ live' = [p \in DOMAIN live' |-> live'[p]] /\ fb' = [p \in DOMAIN fb' |-> fb'[p]]
      /\ denied' = 0
  <2>1. (user - hd) % FALLBACK_MOD = user - hd BY <1>4
  <2> QED BY <1>1, <1>5, <2>1 DEF Return, Put
<1>7. /\ \A p \in DOMAIN live : Header(p)' = Header(p)
      /\ Header(user)' = hd
  BY <1>1, <1>6 DEF Header
<1>8. ASSUME NEW p \in DOMAIN live'
      PROVE  /\ p % live'[p].align = 0
             /\ Header(p)' \in heap'.used \cup DOMAIN large'
             /\ Header(p)' + HeaderSize(large', Header(p)') <= p
             /\ p + live'[p].sz <= Extent(heap', large', Header(p)')
             /\ \A q \in DOMAIN live' : Header(p)' = Header(q)' => p = q
  <2>1. CASE p = user
    <3>1. \A q \in DOMAIN live : Header(q) # hd BY <1>3
    <3> QED BY <1>6, <1>7, <2>1, <3>1
  <2>2. CASE p \in DOMAIN live
    <3>1. /\ p % live[p].align = 0
          /\ Header(p) + HeaderSize(large, Header(p)) <= p
          /\ \A q \in DOMAIN live : Header(p) = Header(q) => p = q
      BY <2>2 DEF FallbackFindsHeader
    <3>2. Header(p) # hd BY <1>3, <2>2
    <3> QED BY <1>3, <1>6, <1>7, <2>2, <3>1, <3>2
  <2> QED BY <1>6, <2>1, <2>2
<1>9. FallbackFindsHeader' BY <1>8 DEF FallbackFindsHeader
<1>10. /\ \A p \in DOMAIN live' : p \in Nat /\ live'[p] \in Requests
       /\ \A p \in DOMAIN live' : fb'[p] \in 0 .. FALLBACK_MOD - 1
  BY <1>1, <1>4, <1>6
<1>11. NewPointer BY <1>5, <1>6 DEF NewPointer
<1> QED BY <1>6, <1>9, <1>10, <1>11


LEMMA InvFacts ==
  ASSUME Inv
  PROVE  /\ HeapOK(heap) /\ Balanced(parent, heap.pages, large)
         /\ DOMAIN large \subseteq Nat /\ large \in [DOMAIN large -> Nat]
         /\ \A p \in DOMAIN live : /\ p \in Nat /\ fb[p] \in Nat /\ live[p].sz \in Nat
                                   /\ Header(p) \in heap.used \cup DOMAIN large
<1>1. HeapOK(heap) /\ Balanced(parent, heap.pages, large)
  BY HeapOKOfBalance DEF Inv, TypeOK, Tiling, TreeIsFree, ParentBalance
<1>2. DOMAIN large \subseteq Nat /\ large \in [DOMAIN large -> Nat]
  BY LayoutAssumption DEF Inv, TypeOK
<1>3. \A p \in DOMAIN live : p \in Nat /\ fb[p] \in Nat /\ live[p].sz \in Nat
  BY LayoutAssumption DEF Inv, TypeOK
<1>4. \A p \in DOMAIN live : Header(p) \in heap.used \cup DOMAIN large
  BY DEF Inv, FallbackFindsHeader
<1> QED BY <1>1, <1>2, <1>3, <1>4

\* A block of a page, a compacted page or a fresh page serves the request.
LEMMA ServeOK ==
  ASSUME Inv, RequestsFit, state # "bad_parent_free",
         NEW r \in Requests, NEW h, HeapOK(h),
         h.used = heap.used, \A a \in heap.used : h.size[a] = heap.size[a],
         NEW b \in h.tree, h.size[b] >= MinNeed(r), Serve(h, b, r),
         DOMAIN parent' \subseteq ParentAddrs, parent' \in [DOMAIN parent' -> Nat],
         Balanced(parent', h.pages, large)
  PROVE  Inv' /\ NewPointer
<1> USE LayoutAssumption DEF HDR_SIZE, LARGE_BLOCK_HEADER_SIZE
<1> DEFINE s == Start(b, r)
           u == UserPtr(b, r)
<1>0. TypeOK /\ FallbackFindsHeader BY DEF Inv
<1>1. /\ HeapOK(heap') /\ heap'.pages = h.pages
      /\ heap'.used = heap.used \cup {s} /\ s \notin heap.used /\ s \in Nat
      /\ \A a \in heap.used : heap'.size[a] = heap.size[a]
      /\ u \in Nat /\ u % r.align = 0 /\ s + 8 <= u /\ u < s + 32
      /\ u + EffSize(r) <= End(heap', s)
      /\ large' = large /\ state' = state
  BY CarvedOK DEF Serve
<1>2. Return(u, s, r) BY DEF Serve
<1> HIDE DEF s, u
<1>3. /\ DOMAIN large' \subseteq Nat /\ large' \in [DOMAIN large' -> Nat]
      /\ Balanced(parent', heap'.pages, large')
  BY <1>1, InvFacts
<1>4. s \notin DOMAIN large
  <2> SUFFICES ASSUME s \in DOMAIN large PROVE FALSE OBVIOUS
  <2> DEFINE Chunks == {Chunk(d) : d \in h.pages}
  <2>1. PICK d \in h.pages : BlockInPage(heap', s, d) /\ s \in Blocks(heap')
    BY <1>1 DEF HeapOK, HeapTyped, HeapTiled
  <2>2. /\ d \in Nat /\ heap'.size[s] \in Nat /\ heap'.size[s] >= 24
        /\ s + heap'.size[s] <= d + PageSize /\ d <= s
    BY <1>1, <2>1 DEF HeapOK, HeapTyped, HeapTiled, BlockInPage, End, MIN_BLOCK_SIZE
  <2>3. Chunk(d) < s /\ Chunk(d) = d - 32 BY <1>1, <2>2 DEF Chunk, PAGE_HEADER
  <2>4. /\ parent'[Chunk(d)] = 32 + PageSize /\ Chunk(d) \in DOMAIN parent'
        /\ s \in DOMAIN parent'
    BY DEF Balanced, PAGE_HEADER
  <2>5. Chunk(d) + parent'[Chunk(d)] <= s BY <2>3, <2>4 DEF Balanced
  <2> QED BY <1>1, <2>2, <2>3, <2>4, <2>5
<1>5. /\ \A x \in heap.used \cup DOMAIN large :
            /\ Extent(heap', large', x) = Extent(heap, large, x)
            /\ HeaderSize(large', x) = HeaderSize(large, x)
      /\ HeaderSize(large', s) = 8
      /\ Extent(heap', large', s) = End(heap', s)
  BY <1>1, <1>4 DEF Extent, HeaderSize, End
<1>6. u - s < FALLBACK_MOD /\ u + r.sz <= End(heap', s)
  <2>1. /\ r.sz \in Nat /\ EffSize(r) \in Nat /\ EffSize(r) >= r.sz
        /\ EffAlign(r) + 40 < FALLBACK_MOD /\ EffAlign(r) \in Nat
    BY RequestArithmetic
  <2>2. s \in Blocks(heap') /\ heap'.size[s] \in Nat
    BY <1>1 DEF HeapOK, HeapTyped
  <2>3. End(heap', s) \in Nat BY <1>1, <2>2 DEF End
  <2> QED BY <1>1, <2>1, <2>3
<1>7. /\ FallbackFindsHeader'
      /\ DOMAIN live' \subseteq Nat /\ live' \in [DOMAIN live' -> Requests]
      /\ fb' \in [DOMAIN live' -> 0 .. FALLBACK_MOD - 1]
      /\ denied' = 0 /\ NewPointer
  <2>1. /\ heap'.used \cup DOMAIN large' = (heap.used \cup DOMAIN large) \cup {s}
        /\ DOMAIN large \subseteq DOMAIN large' /\ heap.used \subseteq heap'.used
        /\ s \notin heap.used \cup DOMAIN large
    BY <1>1, <1>4
  <2>2. s + HeaderSize(large', s) <= u /\ u + r.sz <= Extent(heap', large', s)
    BY <1>1, <1>5, <1>6
  <2> QED BY <1>0, <1>1, <1>2, <1>3, <1>5, <1>6, <2>1, <2>2, ReturnOK
<1>8. TypeOK'
  BY <1>0, <1>1, <1>7 DEF TypeOK, HeapOK
<1>9. Tiling' /\ TreeIsFree' BY <1>1 DEF HeapOK, Tiling, TreeIsFree
<1>10. ParentBalance' BY <1>1, <1>3 DEF ParentBalance
<1> QED BY <1>7, <1>8, <1>9, <1>10 DEF Inv

\* A granted chunk added to the chunks held leaves them apart.
LEMMA GrantedApart ==
  ASSUME Inv, NEW n \in Nat, NEW c \in Grants(n)
  PROVE  /\ c \in Nat /\ c % 8 = 0 /\ c \in ParentAddrs /\ c > 0
         /\ n > 0 => c \notin DOMAIN parent
         /\ \A d \in DOMAIN parent :
              /\ d \in Nat /\ parent[d] \in Nat
              /\ c + n <= d \/ d + parent[d] <= c
         /\ n > 40 => \A d \in DOMAIN parent : c + 32 # d
<1>1. c \in Nat /\ c % 8 = 0 /\ c \in ParentAddrs /\ c > 0
  BY LayoutAssumption DEF Grants, MIN_ALIGN
<1>2. \A d \in DOMAIN parent :
        /\ d \in Nat /\ parent[d] \in Nat
        /\ c + n <= d \/ d + parent[d] <= c
  BY LayoutAssumption DEF Grants, Inv, TypeOK
<1>3. \A d \in DOMAIN parent : parent[d] > 0
  <2> TAKE d \in DOMAIN parent
  <2>1. Balanced(parent, heap.pages, large) BY DEF Inv, ParentBalance
  <2>2. parent[d] \in Nat BY <1>2
  <2>3. CASE d \in DOMAIN large
    BY <2>1, <2>2, <2>3 DEF Balanced, LARGE_BLOCK_HEADER_SIZE
  <2>4. CASE \E x \in heap.pages : d = Chunk(x)
    BY <2>1, <2>4, LayoutAssumption DEF Balanced, PAGE_HEADER
  <2> QED BY <2>1, <2>3, <2>4 DEF Balanced
<1>4. ASSUME NEW d \in DOMAIN parent
      PROVE  (n > 0 => c # d) /\ (n > 40 => c + 32 # d)
  <2>1. /\ d \in Nat /\ parent[d] \in Nat /\ parent[d] > 0
        /\ c + n <= d \/ d + parent[d] <= c
    BY <1>2, <1>3
  <2> QED BY <1>1, <2>1
<1>5. n > 0 => c \notin DOMAIN parent BY <1>4
<1> QED BY <1>1, <1>2, <1>4, <1>5


\* allocate_align from a fresh page.
LEMMA NewPageStep ==
  ASSUME Inv, RequestsFit, state = "alive", NEW r \in Requests, AllocNewPage(r)
  PROVE  Inv' /\ NewPointer
<1> USE LayoutAssumption DEF PAGE_HEADER, Chunk, LARGE_BLOCK_HEADER_SIZE
<1> DEFINE n == PAGE_HEADER + PageSize
           k == Compacted(heap)
<1>0. PICK c \in Grants(n) :
        /\ \E b \in CeilEntry(AddPage(k, c), MinNeed(r)) : Serve(AddPage(k, c), b, r)
        /\ parent' = Put(parent, c, n)
  BY DEF AllocNewPage
<1> DEFINE h == AddPage(k, c)
<1>1. PICK b \in CeilEntry(h, MinNeed(r)) : Serve(h, b, r) BY <1>0
<1>2. /\ HeapOK(k) /\ k.pages = heap.pages /\ k.used = heap.used
      /\ \A a \in heap.used : k.size[a] = heap.size[a]
  BY InvFacts, CompactedOK
<1>3. /\ n \in Nat /\ n > 40
      /\ c \in Nat /\ c % 8 = 0 /\ c \in ParentAddrs /\ c \notin DOMAIN parent
      /\ \A d \in DOMAIN parent : /\ d \in Nat /\ parent[d] \in Nat
                                  /\ c + n <= d \/ d + parent[d] <= c
  <2>1. n \in Nat /\ n > 40 BY DEF MIN_BLOCK_SIZE
  <2> HIDE DEF n
  <2> QED BY <2>1, GrantedApart
<1>4. Balanced(parent, heap.pages, large) BY InvFacts
<1>5. \A d \in k.pages : c + PAGE_HEADER + PageSize <= Chunk(d) \/ d + PageSize <= c
  <2> TAKE d \in k.pages
  <2>1. /\ Chunk(d) \in DOMAIN parent /\ parent[Chunk(d)] = n /\ d \in Nat
    BY <1>2, <1>4, InvFacts DEF Balanced, HeapOK, HeapTyped
  <2> QED BY <1>3, <2>1
<1> HIDE DEF k
<1>6. /\ HeapOK(h) /\ h.pages = heap.pages \cup {c + PAGE_HEADER}
      /\ h.used = heap.used
      /\ \A a \in heap.used : h.size[a] = heap.size[a]
  BY <1>2, <1>3, <1>5, AddPageOK DEF MIN_ALIGN
<1> HIDE DEF h
<1>7. /\ DOMAIN parent' = DOMAIN parent \cup {c} /\ parent'[c] = n
      /\ \A d \in DOMAIN parent : parent'[d] = parent[d]
      /\ parent' = [d \in DOMAIN parent' |-> parent'[d]]
  BY <1>0, <1>3 DEF Put
<1>8. DOMAIN parent' \subseteq ParentAddrs /\ parent' \in [DOMAIN parent' -> Nat]
  BY <1>3, <1>7 DEF Inv, TypeOK
<1>9. Balanced(parent', h.pages, large)
  <2>1. /\ Chunk(c + PAGE_HEADER) = c
        /\ DOMAIN parent' = {Chunk(d) : d \in h.pages} \cup DOMAIN large
    BY <1>3, <1>4, <1>6, <1>7 DEF Balanced
  <2>2. \A d \in h.pages : Chunk(d) \notin DOMAIN large /\ parent'[Chunk(d)] = n
    BY <1>3, <1>4, <1>6, <1>7, <2>1 DEF Balanced
  <2>3. \A x \in DOMAIN large : parent'[x] = large[x] /\ parent'[x] > 40
    BY <1>4, <1>7 DEF Balanced
  <2>4. \A x, y \in DOMAIN parent' : x < y => x + parent'[x] <= y
    <3> TAKE x, y \in DOMAIN parent'
    <3>1. CASE x = c /\ y = c BY <1>3, <3>1
    <3>2. CASE x = c /\ y \in DOMAIN parent
      <4>1. y \in Nat /\ parent[y] \in Nat /\ (c + n <= y \/ y + parent[y] <= c)
        BY <1>3, <3>2
      <4> QED BY <1>3, <1>7, <3>2, <4>1
    <3>3. CASE x \in DOMAIN parent /\ y = c
      <4>1. x \in Nat /\ parent[x] \in Nat /\ (c + n <= x \/ x + parent[x] <= c)
        BY <1>3, <3>3
      <4> QED BY <1>3, <1>7, <3>3, <4>1
    <3>4. CASE x \in DOMAIN parent /\ y \in DOMAIN parent
      BY <1>4, <1>7, <3>4 DEF Balanced
    <3> QED BY <1>7, <3>1, <3>2, <3>3, <3>4
  <2> QED BY <2>1, <2>2, <2>3, <2>4 DEF Balanced
<1>10. b \in h.tree /\ h.size[b] >= MinNeed(r) /\ Serve(h, b, r)
  BY <1>1 DEF CeilEntry, h
<1> QED BY <1>6, <1>8, <1>9, <1>10, ServeOK

\* alloc_from_parent, when the parent grants the chunk.
LEMMA LargeStep ==
  ASSUME Inv, RequestsFit, state = "alive", NEW r \in Requests, AllocLarge(r)
  PROVE  Inv' /\ NewPointer
<1> USE LayoutAssumption DEF LARGE_BLOCK_HEADER_SIZE
<1> DEFINE n == LargeSize(r)
           A == EffAlign(r)
           S == EffSize(r)
<1>1. PICK c \in Grants(n) :
        /\ large' = Put(large, c, n) /\ parent' = Put(parent, c, n)
        /\ Return(AlignUp(c + 40, A), c, r)
  BY DEF AllocLarge
<1>0. heap' = heap /\ state' = state BY DEF AllocLarge
<1>2. /\ A \in Nat /\ A >= 8 /\ S \in Nat /\ S >= 16 /\ S >= r.sz /\ r.sz \in Nat
      /\ A + 40 < FALLBACK_MOD
      /\ n = 40 + (A - 1) + S /\ n \in Nat /\ n > 40
      /\ \A x \in Nat : x % A = 0 => x % r.align = 0
  <2>1. n = 40 + (A - 1) + S BY DEF LargeSize
  <2>2. r.align \in Nat OBVIOUS
  <2> QED BY <2>1, <2>2, RequestArithmetic
<1> HIDE DEF n, A, S
<1>3. /\ c \in Nat /\ c \in ParentAddrs /\ c \notin DOMAIN parent
      /\ \A d \in DOMAIN parent : /\ d \in Nat /\ parent[d] \in Nat
                                  /\ c + n <= d \/ d + parent[d] <= c
      /\ \A d \in DOMAIN parent : c + 32 # d
  BY <1>2, GrantedApart
<1>4. Balanced(parent, heap.pages, large) /\ HeapOK(heap)
      /\ DOMAIN large \subseteq Nat /\ large \in [DOMAIN large -> Nat]
      /\ TypeOK /\ FallbackFindsHeader
  BY InvFacts DEF Inv
<1>5. /\ DOMAIN parent' = DOMAIN parent \cup {c} /\ parent'[c] = n
      /\ \A d \in DOMAIN parent : parent'[d] = parent[d]
      /\ parent' = [d \in DOMAIN parent' |-> parent'[d]]
      /\ DOMAIN large' = DOMAIN large \cup {c} /\ large'[c] = n
      /\ \A d \in DOMAIN large : large'[d] = large[d]
      /\ large' = [d \in DOMAIN large' |-> large'[d]]
      /\ c \notin DOMAIN large /\ DOMAIN large \subseteq DOMAIN parent
  BY <1>1, <1>3, <1>4 DEF Put, Balanced
<1>6. /\ DOMAIN parent' \subseteq ParentAddrs /\ parent' \in [DOMAIN parent' -> Nat]
      /\ DOMAIN large' \subseteq ParentAddrs /\ large' \in [DOMAIN large' -> Nat]
      /\ DOMAIN large' \subseteq Nat
  BY <1>2, <1>3, <1>4, <1>5 DEF TypeOK
<1>7. Balanced(parent', heap'.pages, large')
  <2>1. DOMAIN parent' = {Chunk(d) : d \in heap.pages} \cup DOMAIN large'
    BY <1>4, <1>5 DEF Balanced
  <2>2. \A d \in heap.pages : /\ Chunk(d) \notin DOMAIN large'
                              /\ parent'[Chunk(d)] = PAGE_HEADER + PageSize
    BY <1>3, <1>4, <1>5 DEF Balanced
  <2>3. \A x \in DOMAIN large' : parent'[x] = large'[x] /\ parent'[x] > 40
    BY <1>2, <1>4, <1>5 DEF Balanced
  <2>4. \A x, y \in DOMAIN parent' : x < y => x + parent'[x] <= y
    <3> TAKE x, y \in DOMAIN parent'
    <3>1. CASE x = c /\ y = c BY <1>3, <3>1
    <3>2. CASE x = c /\ y \in DOMAIN parent
      <4>1. y \in Nat /\ parent[y] \in Nat /\ (c + n <= y \/ y + parent[y] <= c)
        BY <1>3, <3>2
      <4> QED BY <1>2, <1>3, <1>5, <3>2, <4>1
    <3>3. CASE x \in DOMAIN parent /\ y = c
      <4>1. x \in Nat /\ parent[x] \in Nat /\ (c + n <= x \/ x + parent[x] <= c)
        BY <1>3, <3>3
      <4> QED BY <1>2, <1>3, <1>5, <3>3, <4>1
    <3>4. CASE x \in DOMAIN parent /\ y \in DOMAIN parent
      BY <1>4, <1>5, <3>4 DEF Balanced
    <3> QED BY <1>5, <3>1, <3>2, <3>3, <3>4
  <2> QED BY <1>0, <2>1, <2>2, <2>3, <2>4 DEF Balanced
<1>8. c \notin heap.used
  <2> SUFFICES ASSUME c \in heap.used PROVE FALSE OBVIOUS
  <2>1. PICK d \in heap.pages : BlockInPage(heap, c, d)
    BY <1>4 DEF HeapOK, HeapTyped, HeapTiled
  <2>2. /\ d \in Nat /\ heap.size[c] \in Nat /\ heap.size[c] >= 24
        /\ c + heap.size[c] <= d + PageSize /\ d <= c
    BY <1>4, <2>1
       DEF HeapOK, HeapTyped, HeapTiled, BlockInPage, End, MIN_BLOCK_SIZE
  <2>3. /\ Chunk(d) = d - 32 /\ Chunk(d) \in DOMAIN parent
        /\ parent[Chunk(d)] = 32 + PageSize
    BY <1>4 DEF Chunk, PAGE_HEADER, Balanced
  <2>4. c + n <= Chunk(d) \/ Chunk(d) + parent[Chunk(d)] <= c BY <1>3, <2>3
  <2> QED BY <1>2, <1>3, <2>2, <2>3, <2>4
<1> DEFINE u == AlignUp(c + 40, A)
<1>9. u \in Nat /\ u >= c + 40 /\ u < c + 40 + A /\ u % A = 0
  <2> DEFINE x == c + 40
  <2>1. x \in Nat /\ A \in Nat \ {0} BY <1>2, <1>3
  <2> HIDE DEF x
  <2>2. /\ AlignUp(x, A) \in Nat /\ AlignUp(x, A) >= x /\ AlignUp(x, A) < x + A
        /\ AlignUp(x, A) % A = 0
    BY <2>1, AlignUpIsAligned
  <2>3. u = AlignUp(x, A) BY DEF x
  <2> HIDE DEF u
  <2> QED BY <2>2, <2>3 DEF x
<1>10. Return(u, c, r) BY <1>1
<1> HIDE DEF u
<1>11. /\ \A x \in heap.used \cup DOMAIN large :
            /\ Extent(heap', large', x) = Extent(heap, large, x)
            /\ HeaderSize(large', x) = HeaderSize(large, x)
       /\ HeaderSize(large', c) = 40
       /\ Extent(heap', large', c) = c + n
  BY <1>0, <1>5, <1>8 DEF Extent, HeaderSize, End
<1>12. /\ FallbackFindsHeader'
       /\ DOMAIN live' \subseteq Nat /\ live' \in [DOMAIN live' -> Requests]
       /\ fb' \in [DOMAIN live' -> 0 .. FALLBACK_MOD - 1]
       /\ denied' = 0 /\ NewPointer
  <2>1. /\ heap'.used \cup DOMAIN large' = (heap.used \cup DOMAIN large) \cup {c}
        /\ DOMAIN large \subseteq DOMAIN large' /\ heap.used \subseteq heap'.used
        /\ c \notin heap.used \cup DOMAIN large
    BY <1>0, <1>5, <1>8
  <2>2. /\ c + HeaderSize(large', c) <= u /\ u + r.sz <= Extent(heap', large', c)
        /\ u - c < FALLBACK_MOD /\ u % r.align = 0
    BY <1>2, <1>3, <1>9, <1>11
  <2>3. HeapOK(heap') BY <1>0, <1>4
  <2> QED BY <1>3, <1>4, <1>6, <1>7, <1>9, <1>10, <1>11, <2>1, <2>2, <2>3, ReturnOK
<1>13. TypeOK'
  BY <1>0, <1>4, <1>6, <1>12 DEF TypeOK
<1>14. Tiling' /\ TreeIsFree' /\ ParentBalance'
  BY <1>0, <1>7 DEF Inv, Tiling, TreeIsFree, ParentBalance
<1> QED BY <1>12, <1>13, <1>14 DEF Inv


\* A heap with the same used blocks, each of its size, serves the pointers
\* the client holds as well (compact(), a refused page).
LEMMA SameUsedOK ==
  ASSUME Inv, HeapOK(heap'), heap'.pages = heap.pages, heap'.used = heap.used,
         \A a \in heap.used : heap'.size[a] = heap.size[a],
         UNCHANGED << large, fb, live, parent, state >>, denied' \in Nat
  PROVE  Inv'
<1>1. \A p \in DOMAIN live : Header(p)' = Header(p) BY DEF Header
<1>2. \A x \in heap.used \cup DOMAIN large :
        Extent(heap', large', x) = Extent(heap, large, x)
  BY DEF Extent, End
<1>3. FallbackFindsHeader'
  BY <1>1, <1>2 DEF Inv, FallbackFindsHeader
<1>4. TypeOK' BY DEF Inv, TypeOK, HeapOK
<1>5. Tiling' /\ TreeIsFree' BY DEF HeapOK, Tiling, TreeIsFree
<1>6. ParentBalance' BY DEF Inv, ParentBalance
<1> QED BY <1>3, <1>4, <1>5, <1>6 DEF Inv

\* allocate_align, whichever attempt of its loop ends it.
LEMMA AllocateStep ==
  ASSUME Inv, RequestsFit, NEW r \in Requests, allocate_align(r)
  PROVE  Inv' /\ (NewPointer \/ live' = live)
<1>0. state = "alive" BY DEF allocate_align
<1>1. HeapOK(heap) /\ Balanced(parent, heap.pages, large) BY InvFacts
<1>2. DOMAIN parent \subseteq ParentAddrs /\ parent \in [DOMAIN parent -> Nat]
  BY DEF Inv, TypeOK
<1> DEFINE k == Compacted(heap)
<1>3. /\ HeapOK(k) /\ k.pages = heap.pages /\ k.used = heap.used
      /\ \A a \in heap.used : k.size[a] = heap.size[a]
  BY <1>1, CompactedOK
<1> HIDE DEF k
<1>4. CASE AllocFromTree(r)
  <2>1. PICK b \in CeilEntry(heap, MinNeed(r)) : Serve(heap, b, r)
    BY <1>4 DEF AllocFromTree
  <2>2. parent' = parent BY <1>4 DEF AllocFromTree
  <2>3. b \in heap.tree /\ heap.size[b] >= MinNeed(r) BY DEF CeilEntry
  <2> QED BY <1>0, <1>1, <1>2, <2>1, <2>2, <2>3, ServeOK
<1>5. CASE AllocCompacted(r)
  <2>1. PICK b \in CeilEntry(k, MinNeed(r)) : Serve(k, b, r)
    BY <1>5 DEF AllocCompacted, k
  <2>2. parent' = parent BY <1>5 DEF AllocCompacted
  <2>3. b \in k.tree /\ k.size[b] >= MinNeed(r) BY DEF CeilEntry
  <2> QED BY <1>0, <1>1, <1>2, <1>3, <2>1, <2>2, <2>3, ServeOK
<1>6. CASE AllocNewPage(r) BY <1>0, <1>6, NewPageStep
<1>7. CASE AllocDenied(r)
  <2>1. MinNeed(r) \in Nat BY RequestArithmetic
  <2>2. /\ heap' = k /\ denied' = MinNeed(r)
        /\ UNCHANGED << large, fb, live, parent, state >>
    BY <1>7 DEF AllocDenied, k
  <2> QED BY <1>3, <2>1, <2>2, SameUsedOK
<1>8. CASE AllocLarge(r) BY <1>0, <1>8, LargeStep
<1>9. CASE AllocLargeRefused(r)
  <2>1. /\ state' = "null_write"
        /\ UNCHANGED << heap, large, fb, live, parent, denied >>
    BY <1>9 DEF AllocLargeRefused
  <2>2. \A p \in DOMAIN live : Header(p)' = Header(p) BY <2>1 DEF Header
  <2>3. FallbackFindsHeader' BY <2>1, <2>2 DEF Inv, FallbackFindsHeader
  <2>4. TypeOK' BY <2>1 DEF Inv, TypeOK, States
  <2> QED BY <2>1, <2>3, <2>4 DEF Inv, Tiling, TreeIsFree, ParentBalance
<1> QED BY <1>4, <1>5, <1>6, <1>7, <1>8, <1>9 DEF allocate_align

\* deallocate: the header found is the one this pointer alone owns.
LEMMA DeallocateStep ==
  ASSUME Inv, NEW p \in DOMAIN live, deallocate(p)
  PROVE  Inv'
<1> USE LayoutAssumption
<1> DEFINE x == Header(p)
<1>1. HeapOK(heap) /\ Balanced(parent, heap.pages, large)
      /\ DOMAIN large \subseteq Nat /\ large \in [DOMAIN large -> Nat]
      /\ x \in heap.used \cup DOMAIN large
  BY InvFacts
<1>2. fb' = Drop(fb, p) /\ live' = Drop(live, p) /\ denied' = 0
  BY DEF deallocate
<1>3. /\ DOMAIN live' = DOMAIN live \ {p} /\ DOMAIN fb' = DOMAIN live \ {p}
      /\ \A q \in DOMAIN live' : live'[q] = live[q] /\ fb'[q] = fb[q]
      /\ live' \in [DOMAIN live' -> Requests] /\ DOMAIN live' \subseteq Nat
      /\ fb' \in [DOMAIN live' -> 0 .. FALLBACK_MOD - 1]
  BY <1>2 DEF Drop, Inv, TypeOK
<1>4. \A q \in DOMAIN live' : Header(q)' = Header(q) /\ Header(q) # x
  BY <1>3 DEF Header, Inv, FallbackFindsHeader
<1> HIDE DEF x
<1>5. ASSUME heap'.used \cup DOMAIN large' = (heap.used \cup DOMAIN large) \ {x},
             \A y \in heap.used \cup DOMAIN large : y # x =>
                /\ Extent(heap', large', y) = Extent(heap, large, y)
                /\ HeaderSize(large', y) = HeaderSize(large, y)
      PROVE  FallbackFindsHeader'
  <2> SUFFICES ASSUME NEW q \in DOMAIN live'
               PROVE  /\ q % live'[q].align = 0
                      /\ Header(q)' \in heap'.used \cup DOMAIN large'
                      /\ Header(q)' + HeaderSize(large', Header(q)') <= q
                      /\ q + live'[q].sz <= Extent(heap', large', Header(q)')
                      /\ \A o \in DOMAIN live' : Header(q)' = Header(o)' => q = o
    BY DEF FallbackFindsHeader
  <2>1. /\ q \in DOMAIN live /\ live'[q] = live[q]
        /\ Header(q)' = Header(q) /\ Header(q) # x
    BY <1>3, <1>4
  <2>2. /\ q % live[q].align = 0
        /\ Header(q) \in heap.used \cup DOMAIN large
        /\ Header(q) + HeaderSize(large, Header(q)) <= q
        /\ q + live[q].sz <= Extent(heap, large, Header(q))
        /\ \A o \in DOMAIN live : Header(q) = Header(o) => q = o
    BY <2>1 DEF Inv, FallbackFindsHeader
  <2> QED BY <1>3, <1>4, <1>5, <2>1, <2>2
<1>6. CASE FreeBlock(p)
  <2>1. /\ x \in heap.used
        /\ heap'.pages = heap.pages /\ heap'.size = heap.size
        /\ heap'.used = heap.used \ {x} /\ heap'.tree = heap.tree \cup {x}
        /\ UNCHANGED << large, parent, state >>
    BY <1>6 DEF FreeBlock, x
  <2>2. HeapTyped(heap') /\ HeapTiled(heap') /\ heap'.tree = Free(heap')
        /\ Blocks(heap') = Blocks(heap)
    BY <1>1, <2>1
       DEF HeapOK, HeapTyped, HeapTiled, BlockInPage, Blocks, Free, End
  <2>3. x \notin DOMAIN large
    <3> SUFFICES ASSUME x \in DOMAIN large PROVE FALSE OBVIOUS
    <3>1. PICK d \in heap.pages : BlockInPage(heap, x, d)
      BY <1>1, <2>1 DEF HeapOK, HeapTyped, HeapTiled
    <3>2. /\ d \in Nat /\ x \in Nat /\ heap.size[x] \in Nat /\ heap.size[x] >= 24
          /\ x + heap.size[x] <= d + PageSize /\ d <= x
      BY <1>1, <2>1, <3>1
         DEF HeapOK, HeapTyped, HeapTiled, BlockInPage, End, MIN_BLOCK_SIZE
    <3>3. /\ Chunk(d) = d - 32 /\ Chunk(d) \in DOMAIN parent /\ x \in DOMAIN parent
          /\ parent[Chunk(d)] = 32 + PageSize
      BY <1>1 DEF Chunk, PAGE_HEADER, Balanced
    <3>4. Chunk(d) < x BY <3>2, <3>3
    <3>5. Chunk(d) + parent[Chunk(d)] <= x BY <1>1, <3>3, <3>4 DEF Balanced
    <3> QED BY <3>2, <3>3, <3>5
  <2>4. FallbackFindsHeader'
    <3>1. heap'.used \cup DOMAIN large' = (heap.used \cup DOMAIN large) \ {x}
      BY <2>1, <2>3
    <3>2. \A y \in heap.used \cup DOMAIN large :
            /\ Extent(heap', large', y) = Extent(heap, large, y)
            /\ HeaderSize(large', y) = HeaderSize(large, y)
      BY <2>1 DEF Extent, End
    <3> QED BY <1>5, <3>1, <3>2
  <2>5. TypeOK' BY <1>2, <1>3, <2>1, <2>2 DEF Inv, TypeOK
  <2>6. ParentBalance' BY <2>1 DEF Inv, ParentBalance
  <2> QED BY <2>2, <2>4, <2>5, <2>6 DEF Inv, Tiling, TreeIsFree
<1>7. CASE FreeLarge(p)
  <2>1. /\ x \in DOMAIN large /\ heap' = heap /\ large' = Drop(large, x)
        /\ GiveBack(x, large[x])
    BY <1>7 DEF FreeLarge, x
  <2>2. x \in DOMAIN parent /\ parent[x] = large[x]
    BY <1>1, <2>1 DEF Balanced
  <2>3. parent' = Drop(parent, x) /\ state' = state
    BY <2>1, <2>2 DEF GiveBack
  <2>4. /\ DOMAIN large' = DOMAIN large \ {x} /\ DOMAIN parent' = DOMAIN parent \ {x}
        /\ \A y \in DOMAIN large' : large'[y] = large[y]
        /\ \A y \in DOMAIN parent' : parent'[y] = parent[y]
        /\ large' \in [DOMAIN large' -> Nat] /\ parent' \in [DOMAIN parent' -> Nat]
    BY <2>1, <2>3 DEF Drop, Inv, TypeOK
  <2>5. x \notin heap.used
    <3> SUFFICES ASSUME x \in heap.used PROVE FALSE OBVIOUS
    <3>1. PICK d \in heap.pages : BlockInPage(heap, x, d)
      BY <1>1 DEF HeapOK, HeapTyped, HeapTiled
    <3>2. /\ d \in Nat /\ x \in Nat /\ heap.size[x] \in Nat /\ heap.size[x] >= 24
          /\ x + heap.size[x] <= d + PageSize /\ d <= x
      BY <1>1, <3>1
         DEF HeapOK, HeapTyped, HeapTiled, BlockInPage, End, MIN_BLOCK_SIZE
    <3>3. /\ Chunk(d) = d - 32 /\ Chunk(d) \in DOMAIN parent
          /\ parent[Chunk(d)] = 32 + PageSize
      BY <1>1 DEF Chunk, PAGE_HEADER, Balanced
    <3>4. Chunk(d) < x BY <3>2, <3>3
    <3>5. Chunk(d) + parent[Chunk(d)] <= x BY <1>1, <2>2, <3>3, <3>4 DEF Balanced
    <3> QED BY <3>2, <3>3, <3>5
  <2>6. FallbackFindsHeader'
    <3>1. heap'.used \cup DOMAIN large' = (heap.used \cup DOMAIN large) \ {x}
      BY <2>1, <2>4, <2>5
    <3>2. \A y \in heap.used \cup DOMAIN large : y # x =>
            /\ Extent(heap', large', y) = Extent(heap, large, y)
            /\ HeaderSize(large', y) = HeaderSize(large, y)
      BY <2>1, <2>4 DEF Extent, HeaderSize
    <3> QED BY <1>5, <3>1, <3>2
  <2>7. ParentBalance'
    <3>1. Balanced(parent', heap.pages, large')
      BY <1>1, <2>1, <2>4 DEF Balanced
    <3> QED BY <2>1, <2>3, <3>1 DEF Inv, ParentBalance
  <2>8. TypeOK' BY <1>2, <1>3, <2>1, <2>3, <2>4 DEF Inv, TypeOK
  <2> QED BY <2>1, <2>6, <2>7, <2>8 DEF Inv, Tiling, TreeIsFree
<1>8. CASE FreeWild(p) BY <1>1, <1>8 DEF FreeWild, x
<1> QED BY <1>6, <1>7, <1>8 DEF deallocate

\* The destructor gives every page back with the size it was granted with.
LEMMA DestroyStep ==
  ASSUME Inv, destroy
  PROVE  Inv'
<1> DEFINE Pages == {Chunk(d) : d \in heap.pages}
<1>1. Balanced(parent, heap.pages, large) BY InvFacts
<1>2. /\ heap' = EmptyHeap /\ fb' = << >> /\ live' = << >> /\ denied' = 0
      /\ large' = large /\ state' = "destroyed"
      /\ parent' = [c \in DOMAIN parent \ Pages |-> parent[c]]
  BY <1>1 DEF destroy, Balanced
<1>3. /\ DOMAIN parent' = DOMAIN large /\ DOMAIN parent' \subseteq DOMAIN parent
      /\ \A c \in DOMAIN parent' : parent'[c] = parent[c]
  BY <1>1, <1>2 DEF Balanced
<1>4. Balanced(parent', heap'.pages, large')
  BY <1>1, <1>2, <1>3 DEF Balanced, EmptyHeap
<1>5. /\ HeapTyped(heap') /\ HeapTiled(heap') /\ heap'.tree = Free(heap')
  BY <1>2 DEF EmptyHeap, HeapTyped, HeapTiled, Blocks, Free
<1>6. parent' \in [DOMAIN parent' -> Nat] /\ DOMAIN parent' \subseteq ParentAddrs
  BY <1>2, <1>3 DEF Inv, TypeOK
<1>7. TypeOK' BY <1>2, <1>5, <1>6 DEF Inv, TypeOK, States
<1>8. FallbackFindsHeader' BY <1>2 DEF FallbackFindsHeader
<1> QED BY <1>2, <1>4, <1>5, <1>7, <1>8
        DEF Inv, Tiling, TreeIsFree, ParentBalance

-----------------------------------------------------------------------------
(* Theorems *)

\* The invariant is inductive.
LEMMA InitInv == Init => Inv
BY DEF Init, EmptyHeap, Inv, TypeOK, States, HeapTyped, HeapTiled, Blocks, Free,
       Tiling, TreeIsFree, FallbackFindsHeader, ParentBalance, Balanced

LEMMA NextInv == RequestsFit /\ Inv /\ [Next]_vars => Inv'
<1> SUFFICES ASSUME RequestsFit, Inv, [Next]_vars PROVE Inv' OBVIOUS
<1>1. ASSUME NEW r \in Requests, allocate_align(r) PROVE Inv'
  BY <1>1, AllocateStep
<1>2. ASSUME NEW p \in DOMAIN live, deallocate(p) PROVE Inv'
  BY <1>2, DeallocateStep
<1>3. CASE compact
  <2>1. /\ heap' = Compacted(heap) /\ denied' = 0
        /\ UNCHANGED << large, fb, live, parent, state >>
    BY <1>3 DEF compact
  <2> QED BY <2>1, InvFacts, CompactedOK, SameUsedOK
<1>4. CASE destroy BY <1>4, DestroyStep
<1>5. CASE UNCHANGED vars
  <2>1. UNCHANGED << heap, large, fb, live, parent, denied, state >>
    BY <1>5 DEF vars
  <2>2. \A p \in DOMAIN live : Header(p)' = Header(p) BY <2>1 DEF Header
  <2> QED BY <2>1, <2>2 DEF Inv, TypeOK, Tiling, TreeIsFree, FallbackFindsHeader,
             ParentBalance
<1> QED BY <1>1, <1>2, <1>3, <1>4, <1>5 DEF Next

\* Every property of Inv holds in every reachable state, whatever the sizes,
\* alignments and addresses, if no width cuts a request.
THEOREM SpecInv == ASSUME RequestsFit PROVE Spec => []Inv
<1>1. Inv /\ [Next]_vars => Inv' BY NextInv
<1> QED BY <1>1, InitInv, PTL DEF Spec

\* Type correctness: the use bits and the tree only name headers that exist.
THEOREM TypeCorrect == ASSUME RequestsFit PROVE Spec => []TypeOK
<1>1. Inv => TypeOK BY DEF Inv
<1> QED BY <1>1, SpecInv, PTL

\* The blocks tile the pages (the assertion of print_log).
THEOREM BlocksTile == ASSUME RequestsFit PROVE Spec => []Tiling
<1>1. Inv => Tiling BY DEF Inv
<1> QED BY <1>1, SpecInv, PTL

\* Exactly the unused blocks are linked: unlink() finds what it is handed.
THEOREM FreeBlocksLinked == ASSUME RequestsFit PROVE Spec => []TreeIsFree
<1>1. Inv => TreeIsFree BY DEF Inv
<1> QED BY <1>1, SpecInv, PTL

\* deallocate finds the header of every pointer allocate_align returned.
THEOREM HeaderFound == ASSUME RequestsFit PROVE Spec => []FallbackFindsHeader
<1>1. Inv => FallbackFindsHeader BY DEF Inv
<1> QED BY <1>1, SpecInv, PTL

\* No two clients ever share a byte.
THEOREM NoOverlap == ASSUME RequestsFit PROVE Spec => []RegionsDisjoint
BY SpecInv, InvRegionsDisjoint, PTL

\* Pages and large chunks go back to the parent exactly as they came.
THEOREM ParentPaidBack == ASSUME RequestsFit PROVE Spec => []ParentBalance
<1>1. Inv => ParentBalance BY DEF Inv
<1> QED BY <1>1, SpecInv, PTL


\* The assertion block_size >= used of allocate_align never fails.
THEOREM CarvingNeverOverruns == ASSUME RequestsFit PROVE Spec => []BlockSizeCoversUsed
<1>1. ASSUME Inv, RequestsFit PROVE BlockSizeCoversUsed
  <2> SUFFICES ASSUME NEW r \in Requests, NEW b \in heap.tree,
                      heap.size[b] >= MinNeed(r)
               PROVE  BlockSize(heap, b, r) >= UserPtr(b, r) + EffSize(r) - Start(b, r)
    BY DEF BlockSizeCoversUsed
  <2>1. /\ b \in Nat /\ b % 8 = 0 /\ heap.size[b] \in Nat /\ heap.size[b] % 8 = 0
    BY <1>1, InvFacts DEF HeapOK, HeapTyped, HeapTiled, Free, MIN_ALIGN
  <2>2. /\ UserPtr(b, r) \in Nat /\ Start(b, r) \in Nat /\ BlockSize(heap, b, r) \in Nat
        /\ UserPtr(b, r) + EffSize(r) <= Start(b, r) + BlockSize(heap, b, r)
    BY <1>1, <2>1, CarveArithmetic
  <2>3. EffSize(r) \in Nat BY <1>1, RequestArithmetic
  <2> QED BY <2>2, <2>3
<1> QED BY <1>1, SpecInv, PTL

\* If ceil_entry finds nothing, every linked block is too small.
LEMMA CeilEntryComplete ==
  ASSUME NEW h, HeapOK(h), NEW need \in Nat, CeilEntry(h, need) = {}
  PROVE  \A b \in h.tree : h.size[b] < need
<1> SUFFICES ASSUME NEW b \in h.tree, h.size[b] >= need PROVE FALSE
  BY DEF HeapOK, HeapTyped
<1>1. \A c \in h.tree : h.size[c] \in Nat BY DEF HeapOK, HeapTyped
<1> DEFINE S == {h.size[c] : c \in {x \in h.tree : h.size[x] >= need}}
<1>2. S \in SUBSET Nat /\ S # {} BY <1>1
<1>3. PICK m \in S : \A n \in S : m <= n BY <1>2, LeastNat
<1>4. PICK c \in h.tree : h.size[c] = m /\ m >= need OBVIOUS
<1>5. c \in CeilEntry(h, need) BY <1>3, <1>4 DEF CeilEntry
<1> QED BY <1>5

\* In a compacted heap where ceil_entry finds nothing, no run of free blocks
\* is long enough either: a run is a single block.
LEMMA CompactedRunsAreBlocks ==
  ASSUME NEW h, HeapOK(h), NEW need \in Nat, CeilEntry(Compacted(h), need) = {},
         NEW d \in h.pages,
         NEW a \in Blocks(Compacted(h)) \cap (d .. d + PageSize - 1),
         NEW b \in Blocks(Compacted(h)) \cap (d .. d + PageSize - 1),
         a <= b, Blocks(Compacted(h)) \cap (a .. b) \subseteq Free(Compacted(h))
  PROVE  End(Compacted(h), b) - a < need
<1> USE LayoutAssumption
<1> DEFINE k == Compacted(h)
<1>1. /\ HeapOK(k) /\ k.pages = h.pages
      /\ \A x \in Free(k) : End(k, x) \notin Free(k) \/ End(k, x) \in h.pages
  BY CompactedOK
<1>2. \A x \in Free(k) : k.size[x] < need
  BY <1>1, CeilEntryComplete DEF HeapOK
<1> HIDE DEF k
<1>3. /\ a \in Nat /\ b \in Nat /\ d \in Nat /\ k.size[a] \in Nat /\ k.size[b] \in Nat
      /\ k.size[a] >= 24 /\ a \in Blocks(k) /\ b \in Blocks(k)
      /\ Blocks(k) \cap (a .. b) \subseteq Free(k)
      /\ d <= a /\ a < d + PageSize /\ d <= b /\ b < d + PageSize
  BY <1>1 DEF HeapOK, HeapTyped, HeapTiled, MIN_BLOCK_SIZE, k
<1>4. a \in Free(k) BY <1>3
<1>5. CASE a = b
  <2>1. End(k, b) = a + k.size[a] BY <1>5 DEF End
  <2> QED BY <1>2, <1>3, <1>4, <2>1 DEF k
<1>6. CASE a < b
  <2> DEFINE e == End(k, a)
  <2>1. e \in Nat /\ a < e /\ e <= b
    BY <1>1, <1>3, <1>6 DEF HeapOK, HeapTiled, End
  <2>2. PICK c \in h.pages : BlockInPage(k, a, c)
    BY <1>1, <1>3 DEF HeapOK, HeapTiled
  <2>3. /\ c \in Nat /\ c <= a /\ e <= c + PageSize
        /\ e = c + PageSize \/ e \in Blocks(k)
    BY <1>1, <2>2 DEF BlockInPage, HeapOK, HeapTyped
  <2>4. c = d
    BY <1>1, <1>3, <2>1, <2>3 DEF HeapOK, PagesApart
  <2>5. e \in Blocks(k) BY <1>3, <2>1, <2>3, <2>4
  <2>6. e \in Free(k) BY <1>3, <2>1, <2>5
  <2>7. e \in h.pages BY <1>1, <1>4, <2>6
  <2> QED BY <1>1, <1>3, <2>1, <2>7 DEF HeapOK, PagesApart
<1> QED BY <1>3, <1>5, <1>6

\* nullptr is only returned when no run of free bytes could hold the request.
THEOREM NullIsHonest == ASSUME RequestsFit PROVE Spec => []NullMeansExhausted
<1>1. Init => NullMeansExhausted BY DEF Init, NullMeansExhausted
<1>2. ASSUME RequestsFit, Inv, NullMeansExhausted, [Next]_vars
      PROVE  NullMeansExhausted'
  <2>1. ASSUME NEW r \in Requests, allocate_align(r) PROVE NullMeansExhausted'
    <3>1. CASE AllocDenied(r)
      <4>1. /\ heap' = Compacted(heap) /\ denied' = MinNeed(r)
            /\ CeilEntry(Compacted(heap), MinNeed(r)) = {}
        BY <3>1 DEF AllocDenied, NeedsPage
      <4>2. MinNeed(r) \in Nat BY <1>2, RequestArithmetic
      <4>3. HeapOK(heap) BY <1>2, InvFacts
      <4>4. heap'.pages = heap.pages BY <4>1 DEF Compacted
      <4> QED BY <4>1, <4>2, <4>3, <4>4, CompactedRunsAreBlocks DEF NullMeansExhausted
    <3>2. CASE AllocLargeRefused(r)
      BY <1>2, <3>2 DEF AllocLargeRefused, NullMeansExhausted
    <3>3. CASE AllocFromTree(r) \/ AllocCompacted(r) \/ AllocNewPage(r) \/ AllocLarge(r)
      <4>1. denied' = 0
        BY <3>3 DEF AllocFromTree, AllocCompacted, AllocNewPage, AllocLarge,
                    Serve, Return
      <4> QED BY <4>1 DEF NullMeansExhausted
    <3> QED BY <2>1, <3>1, <3>2, <3>3 DEF allocate_align
  <2>2. ASSUME NEW p \in DOMAIN live, deallocate(p) PROVE NullMeansExhausted'
    BY <2>2 DEF deallocate, NullMeansExhausted
  <2>3. CASE compact \/ destroy
    BY <2>3 DEF compact, destroy, NullMeansExhausted
  <2>4. CASE UNCHANGED vars
    BY <1>2, <2>4 DEF vars, NullMeansExhausted
  <2> QED BY <1>2, <2>1, <2>2, <2>3, <2>4 DEF Next
<1>3. Inv /\ NullMeansExhausted /\ [Next]_vars => NullMeansExhausted' BY <1>2
<1> QED BY <1>1, <1>3, SpecInv, PTL DEF Spec

\* The detailed allocator implements the contract of tca::allocator: a granted
\* pointer is new, aligned and apart from every other, deallocate takes back
\* exactly one, and no other step touches what the clients hold.
THEOREM KeepsContract == ASSUME RequestsFit PROVE Spec => ImplementsContract
<1>1. Init => Contract!Init BY DEF Init, Contract!Init
<1>2. Inv' => RegionsDisjoint' BY InvRegionsDisjoint, PTL
<1>3. ASSUME Inv, [Next]_vars PROVE Contract!Next \/ live' = live
  <2>1. ASSUME NEW r \in Requests, allocate_align(r) PROVE Contract!Next \/ live' = live
    <3>1. Inv' /\ (NewPointer \/ live' = live) BY <1>3, <2>1, AllocateStep
    <3>2. CASE NewPointer
      <4>1. \A p \in DOMAIN live' : p \in Nat /\ p % live'[p].align = 0
        BY <3>1, LayoutAssumption DEF Inv, TypeOK, FallbackFindsHeader
      <4>2. Contract!Disjoint(live')
        BY <1>2, <3>1, <4>1 DEF RegionsDisjoint, Contract!Disjoint
      <4> QED BY <3>2, <4>1, <4>2 DEF NewPointer, Contract!Next, Contract!Grant
    <3> QED BY <3>1, <3>2
  <2>2. ASSUME NEW p \in DOMAIN live, deallocate(p) PROVE Contract!Next
    BY <2>2 DEF deallocate, Drop, Contract!Next, Contract!TakeBack
  <2>3. CASE compact BY <2>3 DEF compact
  <2>4. CASE destroy BY <2>4 DEF destroy, Contract!Next, Contract!Close
  <2>5. CASE UNCHANGED vars BY <2>5 DEF vars
  <2> QED BY <1>3, <2>1, <2>2, <2>3, <2>4, <2>5 DEF Next
<1>4. Inv /\ [Next]_vars => [Contract!Next]_live BY <1>3
<1> QED BY <1>1, <1>4, SpecInv, PTL DEF Spec, ImplementsContract, Contract!Spec

-----------------------------------------------------------------------------
(* The loops as sequences of heaps *)

Turns(f, h, d, k) ==
  f = [n \in 0 .. k |-> IF n = 0 THEN [heap |-> h, i |-> 0] ELSE Turn(f[n - 1], d)]

LEMMA TurnsExist ==
  ASSUME NEW h, NEW d, NEW k \in Nat
  PROVE  \E f : Turns(f, h, d, k)
<1> DEFINE S == {n \in Nat : ~ \E f : Turns(f, h, d, n)}
<1>1. SUFFICES ASSUME S # {} PROVE FALSE OBVIOUS
<1>2. PICK m \in S : \A n \in S : m <= n
  <2>1. S \in SUBSET Nat OBVIOUS
  <2> HIDE DEF S
  <2> QED BY <1>1, <2>1, LeastNat
<1>3. m \in Nat /\ ~ \E f : Turns(f, h, d, m) BY <1>2
<1>4. CASE m = 0
  <2> DEFINE f == [n \in 0 .. 0 |-> [heap |-> h, i |-> 0]]
  <2>1. Turns(f, h, d, 0) BY DEF Turns
  <2> QED BY <1>3, <1>4, <2>1
<1>5. CASE m # 0
  <2>1. m - 1 \in Nat /\ m - 1 \notin S BY <1>2, <1>3, <1>5
  <2>2. PICK f : Turns(f, h, d, m - 1) BY <2>1
  <2> DEFINE g == [n \in 0 .. m |-> IF n = m THEN Turn(f[m - 1], d) ELSE f[n]]
  <2>3. \A n \in 0 .. m : g[n] = IF n = 0 THEN [heap |-> h, i |-> 0] ELSE Turn(g[n - 1], d)
    <3> TAKE n \in 0 .. m
    <3>1. CASE n = m
      <4>1. g[n] = Turn(f[m - 1], d) /\ g[n - 1] = f[n - 1] BY <1>3, <1>5, <3>1
      <4> QED BY <1>5, <3>1, <4>1
    <3>2. CASE n # m
      <4>1. n \in 0 .. m - 1 /\ g[n] = f[n] BY <1>3, <3>2
      <4>2. f[n] = IF n = 0 THEN [heap |-> h, i |-> 0] ELSE Turn(f[n - 1], d)
        BY <2>2, <4>1 DEF Turns
      <4>3. n # 0 => g[n - 1] = f[n - 1] BY <1>3, <3>2
      <4> QED BY <4>1, <4>2, <4>3
    <3> QED BY <3>1, <3>2
  <2>4. Turns(g, h, d, m)
    <3>1. g = [n \in 0 .. m |-> g[n]] OBVIOUS
    <3> HIDE DEF g
    <3> QED BY <2>3, <3>1 DEF Turns
  <2> QED BY <1>3, <2>4
<1> QED BY <1>4, <1>5

LEMMA ScanPageIs ==
  ASSUME NEW h, NEW d
  PROVE  \E f : Turns(f, h, d, MaxTurns) /\ ScanPage(h, d) = f[MaxTurns].heap
<1> DEFINE f == CHOOSE f : f = [n \in 0 .. MaxTurns |->
                                  IF n = 0 THEN [heap |-> h, i |-> 0] ELSE Turn(f[n - 1], d)]
<1>1. MaxTurns \in Nat BY LayoutAssumption DEF MaxTurns, MIN_BLOCK_SIZE
<1>2. PICK g : Turns(g, h, d, MaxTurns) BY <1>1, TurnsExist
<1>3. Turns(f, h, d, MaxTurns) BY <1>2 DEF Turns
<1>4. ScanPage(h, d) = f[MaxTurns].heap BY DEF ScanPage
<1> QED BY <1>3, <1>4

-----------------------------------------------------------------------------
(* A heap in the middle of the scan *)

\* The blocks the scan has walked over: those of the pages it is done with,
\* and those of page d below e.
Walked(h, D, d, e) ==
  {a \in Blocks(h) : (d <= a /\ a < e) \/ (\E c \in D : c <= a /\ a < c + PageSize)}

\* Of the blocks walked over only the survivors are left.
Kept(h, z) == {a \in Blocks(h) : a \in Survivors(h) \/ a \notin z}

\* Heap g differs from h by what the scan did to the blocks in z; whatever is
\* walked over but in x has its final size.
Changed(h, g, z, x) ==
  /\ g = [pages |-> h.pages, size |-> g.size, used |-> h.used, tree |-> g.tree]
  /\ g.size = [a \in Kept(h, z) |-> g.size[a]]
  /\ g.tree = h.tree \cap Kept(h, z)
  /\ \A a \in Kept(h, z) \ x :
       g.size[a] = IF a \in z THEN NextBoundary(h, a) - a ELSE h.size[a]

\* The scan of page d has reached block b, which extends to e.
Midway(h, s, D, d, b, e) ==
  /\ b \in Survivors(h) /\ e \in Nat /\ d <= b /\ b < e /\ e <= d + PageSize
  /\ s.i = b - d
  /\ e = d + PageSize \/ e \in Blocks(h)
  /\ \A f \in Boundaries(h) : f > b => e <= f
  /\ b \in h.used => e = End(h, b)
  /\ Changed(h, s.heap, Walked(h, D, d, e), {b})
  /\ s.heap.size[b] = e - b

\* A page of h that is not among those scanned.
PageToScan(h, D, d) == HeapOK(h) /\ D \subseteq h.pages /\ d \in h.pages \ D

\* The blocks of page d, from one that is walked to on.
LEMMA BlockAhead ==
  ASSUME NEW h, NEW D, NEW d, PageToScan(h, D, d),
         NEW e \in Blocks(h), d <= e, e < d + PageSize
  PROVE  /\ e \in Nat /\ d \in Nat /\ h.size[e] \in Nat /\ h.size[e] >= 24
         /\ End(h, e) \in Nat /\ End(h, e) = e + h.size[e]
         /\ End(h, e) <= d + PageSize
         /\ End(h, e) = d + PageSize \/ End(h, e) \in Blocks(h)
         /\ \A f \in Boundaries(h) : f > e => End(h, e) <= f
         /\ e \notin Walked(h, D, d, e)
         /\ Walked(h, D, d, End(h, e)) = Walked(h, D, d, e) \cup {e}
<1> USE LayoutAssumption DEF MIN_ALIGN, MIN_BLOCK_SIZE, HeapOK, PageToScan
<1>1. /\ e \in Nat /\ d \in Nat /\ h.size[e] \in Nat /\ h.size[e] >= 24
      /\ End(h, e) = e + h.size[e] /\ PageSize \in Nat
  BY DEF HeapTyped, HeapTiled, End
<1>2. PICK c \in h.pages : BlockInPage(h, e, c) BY DEF HeapTiled
<1>3. c \in Nat BY DEF HeapTyped
<1>4. c = d BY <1>1, <1>2, <1>3 DEF PagesApart, BlockInPage
<1>5. /\ End(h, e) \in Nat /\ End(h, e) <= d + PageSize
      /\ End(h, e) = d + PageSize \/ End(h, e) \in Blocks(h)
  BY <1>1, <1>2, <1>4 DEF BlockInPage
<1>6. \A f \in Blocks(h) : f > e => End(h, e) <= f
  BY DEF HeapTiled
<1>7. \A f \in Boundaries(h) : f > e => End(h, e) <= f
  <2> SUFFICES ASSUME NEW f \in Boundaries(h), f > e PROVE End(h, e) <= f OBVIOUS
  <2>1. CASE f \in Survivors(h) BY <1>6, <2>1 DEF Survivors
  <2>2. CASE f \in {q + PageSize : q \in h.pages}
    <3>1. PICK q \in h.pages : f = q + PageSize BY <2>2
    <3>2. q \in Nat BY DEF HeapTyped
    <3>3. ~ (q < d) BY <1>1, <3>1, <3>2 DEF PagesApart
    <3> QED BY <1>1, <1>5, <3>1, <3>2, <3>3
  <2> QED BY <2>1, <2>2 DEF Boundaries
<1>8. \A q \in D : ~ (q <= e /\ e < q + PageSize)
  <2> SUFFICES ASSUME NEW q \in D, q <= e, e < q + PageSize PROVE FALSE OBVIOUS
  <2>1. q \in h.pages /\ q \in Nat /\ q # d BY DEF HeapTyped
  <2> QED BY <1>1, <2>1 DEF PagesApart
<1>9. e \notin Walked(h, D, d, e) BY <1>1, <1>8 DEF Walked
<1>10. Walked(h, D, d, End(h, e)) = Walked(h, D, d, e) \cup {e}
  <2>1. \A a \in Blocks(h) : a \in Nat /\ (a < End(h, e) <=> a < e \/ a = e)
    BY <1>1, <1>5, <1>6 DEF HeapTyped
  <2> QED BY <1>1, <2>1 DEF Walked
<1> QED BY <1>1, <1>5, <1>7, <1>9, <1>10

\* A boundary with no other between it and b is where b reaches to.
LEMMA NextIs ==
  ASSUME NEW h, HeapOK(h), NEW b \in Nat, NEW e \in Boundaries(h), b < e,
         \A f \in Boundaries(h) : f > b => e <= f
  PROVE  NextBoundary(h, b) = e
<1>1. Boundaries(h) \subseteq Nat
  BY LayoutAssumption DEF Boundaries, Survivors, HeapOK, HeapTyped
<1>2. \A x \in Boundaries(h) : x > b /\ (\A f \in Boundaries(h) : f > b => x <= f) => x = e
  BY <1>1
<1> QED BY <1>1, <1>2 DEF NextBoundary

\* Walking over a survivor that has not changed changes nothing.
LEMMA WalkOverSurvivor ==
  ASSUME NEW h, NEW g, NEW z, NEW b \in z, NEW e \in Survivors(h), e \notin z,
         Changed(h, g, z, {b}), g.size[b] = NextBoundary(h, b) - b
  PROVE  Changed(h, g, z \cup {e}, {e}) /\ g.size[e] = h.size[e]
<1>1. Kept(h, z \cup {e}) = Kept(h, z) /\ e \in Kept(h, z) BY DEF Kept, Survivors
<1>2. \A a \in Kept(h, z) \ {b} :
        g.size[a] = IF a \in z THEN NextBoundary(h, a) - a ELSE h.size[a]
  BY DEF Changed
<1>3. \A a \in Kept(h, z) \ {e} :
        g.size[a] = IF a \in z \cup {e} THEN NextBoundary(h, a) - a ELSE h.size[a]
  BY <1>2
<1>4. g.size[e] = h.size[e] BY <1>1, <1>2
<1>5. Changed(h, g, z \cup {e}, {e}) BY <1>1, <1>3 DEF Changed
<1> QED BY <1>4, <1>5

\* Merging b with a block that is no survivor walks over that block.
LEMMA MergeWalksOver ==
  ASSUME NEW h, h.tree = Free(h), NEW g, NEW z, NEW b \in Survivors(h) \ h.used,
         NEW e \in Blocks(h) \ Survivors(h), e \notin z,
         Changed(h, g, z, {b})
  PROVE  /\ Changed(h, Merged(g, b, e), z \cup {e}, {b})
         /\ Merged(g, b, e).size[b] = g.size[b] + h.size[e]
<1> DEFINE m == Merged(g, b, e)
           k == Kept(h, z)
<1>1. Kept(h, z \cup {e}) = k \ {e} /\ e \in k /\ b \in k /\ b # e BY DEF Kept, Survivors
<1>2. \A a \in k \ {b} :
        g.size[a] = IF a \in z THEN NextBoundary(h, a) - a ELSE h.size[a]
  BY DEF Changed
<1>3. Blocks(g) = k /\ g.pages = h.pages /\ g.used = h.used /\ g.tree = h.tree \cap k
  BY DEF Changed, Blocks
<1>4. /\ m.pages = h.pages /\ m.used = h.used
      /\ m.tree = (g.tree \ {b, e}) \cup {b}
      /\ m.size = [a \in k \ {e} |-> IF a = b THEN g.size[b] + g.size[e] ELSE g.size[a]]
      /\ m = [pages |-> m.pages, size |-> m.size, used |-> m.used, tree |-> m.tree]
  BY <1>3 DEF Merged
<1> HIDE DEF m, k
<1>5. b \in h.tree BY DEF Free, Survivors
<1>6. m.tree = h.tree \cap (k \ {e}) BY <1>1, <1>3, <1>4, <1>5
<1>7. g.size[e] = h.size[e] BY <1>1, <1>2
<1>8. m.size[b] = g.size[b] + h.size[e] BY <1>1, <1>4, <1>7
<1>9. \A a \in (k \ {e}) \ {b} :
        m.size[a] = IF a \in z \cup {e} THEN NextBoundary(h, a) - a ELSE h.size[a]
  BY <1>2, <1>4
<1>10. m.size = [a \in k \ {e} |-> m.size[a]] BY <1>4
<1>11. Changed(h, m, z \cup {e}, {b})
  <2>1. m = [pages |-> h.pages, size |-> m.size, used |-> h.used, tree |-> m.tree]
    BY <1>4
  <2> QED BY <1>1, <1>6, <1>9, <1>10, <2>1 DEF Changed
<1> QED BY <1>8, <1>11 DEF m

-----------------------------------------------------------------------------
(* A turn *)

\* A turn either ends the page or walks over one block more.
TurnGoesOn(h, s, D, d, e) ==
  \E b2, e2 : /\ Midway(h, s, D, d, b2, e2)
              /\ e2 = d + PageSize \/ e2 >= e + MIN_BLOCK_SIZE

LEMMA TurnMerges ==
  ASSUME NEW h, NEW D, NEW d, PageToScan(h, D, d),
         NEW s, NEW b, NEW e, Midway(h, s, D, d, b, e), e # d + PageSize,
         b \notin h.used, e \notin h.used
  PROVE  Midway(h, [heap |-> Merged(s.heap, b, e), i |-> s.i], D, d, b, End(h, e))
<1> USE LayoutAssumption DEF MIN_ALIGN, MIN_BLOCK_SIZE
<1> DEFINE m == Merged(s.heap, b, e)
           z == Walked(h, D, d, e)
           n == End(h, e)
<1>1. /\ b \in Survivors(h) /\ e \in Nat /\ d <= b /\ b < e /\ e < d + PageSize
      /\ s.i = b - d /\ e \in Blocks(h)
      /\ \A f \in Boundaries(h) : f > b => e <= f
      /\ Changed(h, s.heap, z, {b}) /\ s.heap.size[b] = e - b
  <2>1. d \in Nat BY DEF PageToScan, HeapOK, HeapTyped
  <2> QED BY <2>1 DEF Midway
<1>2. b \in Blocks(h) /\ b \in Nat /\ d \in Nat /\ h.tree = Free(h)
  BY <1>1 DEF Survivors, PageToScan, HeapOK, HeapTyped
<1>3. /\ h.size[e] \in Nat /\ h.size[e] >= 24 /\ n = e + h.size[e]
      /\ n \in Nat /\ n <= d + PageSize /\ (n = d + PageSize \/ n \in Blocks(h))
      /\ \A f \in Boundaries(h) : f > e => n <= f
      /\ e \notin z /\ Walked(h, D, d, n) = z \cup {e}
  BY <1>1, <1>2, BlockAhead
<1>4. e \notin Survivors(h)
  <2>1. SUFFICES ASSUME e \in Survivors(h) PROVE FALSE OBVIOUS
  <2>2. e \notin h.pages
    BY <1>1, <1>2 DEF PageToScan, HeapOK, PagesApart
  <2>3. PICK c \in h.used : End(h, c) = e BY <2>1, <2>2 DEF Survivors
  <2>4. c \in Blocks(h) /\ c \in Nat /\ h.size[c] \in Nat /\ h.size[c] >= 24
        /\ e = c + h.size[c]
    BY <2>3 DEF PageToScan, HeapOK, HeapTyped, HeapTiled, End
  <2>5. c # b BY <2>3
  <2>6. ~ (c < b) BY <1>1, <1>2, <2>3, <2>4 DEF PageToScan, HeapOK, HeapTiled
  <2>7. c \in Boundaries(h) BY <2>4 DEF Boundaries, Survivors
  <2> QED BY <1>1, <1>2, <2>4, <2>5, <2>6, <2>7
<1>5. \A q \in h.pages : q + PageSize # e
  <2> TAKE q \in h.pages
  <2>1. q \in Nat BY DEF PageToScan, HeapOK, HeapTyped
  <2> QED BY <1>1, <1>2, <2>1 DEF PageToScan, HeapOK, PagesApart
<1>6. \A f \in Boundaries(h) : f > b => n <= f
  <2> SUFFICES ASSUME NEW f \in Boundaries(h), f > b PROVE n <= f OBVIOUS
  <2>1. f # e BY <1>4, <1>5 DEF Boundaries
  <2>2. f \in Nat BY DEF Boundaries, Survivors, PageToScan, HeapOK, HeapTyped
  <2>3. f > e BY <1>1, <2>1, <2>2
  <2> QED BY <1>3, <2>3
<1>7. /\ Changed(h, m, z \cup {e}, {b})
      /\ m.size[b] = s.heap.size[b] + h.size[e]
  <2>1. b \in Survivors(h) \ h.used /\ e \in Blocks(h) \ Survivors(h) /\ e \notin z
    BY <1>1, <1>3, <1>4
  <2>2. h.tree = Free(h) /\ Changed(h, s.heap, z, {b}) BY <1>1, <1>2
  <2> HIDE DEF z
  <2>3. /\ Changed(h, Merged(s.heap, b, e), z \cup {e}, {b})
        /\ Merged(s.heap, b, e).size[b] = s.heap.size[b] + h.size[e]
    BY <2>1, <2>2, MergeWalksOver
  <2> QED BY <2>3
<1>8. m.size[b] = n - b BY <1>1, <1>2, <1>3, <1>7
<1> DEFINE s2 == [heap |-> m, i |-> s.i]
<1>9. s2.heap = m /\ s2.i = s.i OBVIOUS
<1> HIDE DEF m, z, n, s2
<1>10. b < n BY <1>1, <1>2, <1>3
<1>11. Midway(h, s2, D, d, b, n)
  BY <1>1, <1>3, <1>6, <1>7, <1>8, <1>9, <1>10 DEF Midway
<1> QED BY <1>11 DEF m, n, s2

LEMMA TurnAdvances ==
  ASSUME NEW h, NEW D, NEW d, PageToScan(h, D, d),
         NEW s, NEW b, NEW e, Midway(h, s, D, d, b, e), e # d + PageSize,
         b \in h.used \/ e \in h.used
  PROVE  Midway(h, [heap |-> s.heap, i |-> s.i + (e - b)], D, d, e, End(h, e))
<1> USE LayoutAssumption DEF MIN_ALIGN, MIN_BLOCK_SIZE
<1> DEFINE z == Walked(h, D, d, e)
           n == End(h, e)
<1>1. /\ b \in Survivors(h) /\ e \in Nat /\ d <= b /\ b < e /\ e < d + PageSize
      /\ s.i = b - d /\ e \in Blocks(h)
      /\ \A f \in Boundaries(h) : f > b => e <= f
      /\ b \in h.used => e = End(h, b)
      /\ Changed(h, s.heap, z, {b}) /\ s.heap.size[b] = e - b
  <2>1. d \in Nat BY DEF PageToScan, HeapOK, HeapTyped
  <2> QED BY <2>1 DEF Midway
<1>2. b \in Blocks(h) /\ b \in Nat /\ d \in Nat /\ HeapOK(h)
  BY <1>1 DEF Survivors, PageToScan, HeapOK, HeapTyped
<1>3. /\ h.size[e] \in Nat /\ h.size[e] >= 24 /\ n = e + h.size[e]
      /\ n \in Nat /\ n <= d + PageSize /\ (n = d + PageSize \/ n \in Blocks(h))
      /\ \A f \in Boundaries(h) : f > e => n <= f
      /\ e \notin z /\ Walked(h, D, d, n) = z \cup {e}
  BY <1>1, <1>2, BlockAhead
<1>4. e \in Survivors(h) /\ e \in Boundaries(h)
  BY <1>1 DEF Survivors, Boundaries
<1>5. NextBoundary(h, b) = e BY <1>1, <1>2, <1>4, NextIs
<1>6. b \in z BY <1>1, <1>2 DEF Walked
<1>7. s.heap.size[b] = NextBoundary(h, b) - b BY <1>1, <1>5
<1> HIDE DEF z, n
<1>8. /\ Changed(h, s.heap, z \cup {e}, {e}) /\ s.heap.size[e] = h.size[e]
  BY <1>1, <1>3, <1>4, <1>6, <1>7, WalkOverSurvivor
<1> DEFINE s2 == [heap |-> s.heap, i |-> s.i + (e - b)]
<1>9. s2.heap = s.heap /\ s2.i = e - d BY <1>1, <1>2
<1> HIDE DEF s2
<1>10. s2.heap.size[e] = n - e BY <1>1, <1>3, <1>8, <1>9
<1>11. d <= e /\ e < n BY <1>1, <1>2, <1>3
<1>12. Midway(h, s2, D, d, e, n)
  BY <1>3, <1>4, <1>8, <1>9, <1>10, <1>11 DEF Midway, n
<1> QED BY <1>12 DEF n, s2

LEMMA TurnStep ==
  ASSUME NEW h, NEW D, NEW d, PageToScan(h, D, d),
         NEW s, NEW b, NEW e, Midway(h, s, D, d, b, e)
  PROVE  TurnGoesOn(h, Turn(s, d), D, d, e)
<1> USE LayoutAssumption DEF MIN_ALIGN, MIN_BLOCK_SIZE
<1>1. /\ b \in Survivors(h) /\ e \in Nat /\ d <= b /\ b < e /\ e <= d + PageSize
      /\ s.i = b - d /\ (e = d + PageSize \/ e \in Blocks(h))
      /\ s.heap.size[b] = e - b /\ s.heap.used = h.used
  BY DEF Midway, Changed
<1>2. b \in Nat /\ d \in Nat
  BY <1>1 DEF Survivors, PageToScan, HeapOK, HeapTyped
<1>3. d + s.i = b /\ End(s.heap, b) = e /\ s.i < PageSize
      /\ (s.i + s.heap.size[b] >= PageSize <=> e = d + PageSize)
  BY <1>1, <1>2 DEF End
<1>4. CASE e = d + PageSize
  <2>1. Turn(s, d) = s BY <1>3, <1>4 DEF Turn
  <2> QED BY <1>4, <2>1 DEF TurnGoesOn
<1>5. CASE e # d + PageSize
  <2>1. e \in Blocks(h) /\ e < d + PageSize /\ d <= e BY <1>1, <1>2, <1>5
  <2>2. End(h, e) >= e + 24 BY <2>1, BlockAhead
  <2>3. CASE b \notin h.used /\ e \notin h.used
    <3>1. Turn(s, d) = [heap |-> Merged(s.heap, b, e), i |-> s.i]
      BY <1>1, <1>2, <1>3, <1>5, <2>3 DEF Turn
    <3>2. Midway(h, Turn(s, d), D, d, b, End(h, e)) BY <1>5, <2>3, <3>1, TurnMerges
    <3> QED BY <2>2, <3>2 DEF TurnGoesOn
  <2>4. CASE b \in h.used \/ e \in h.used
    <3>1. Turn(s, d) = [heap |-> s.heap, i |-> s.i + (e - b)]
      BY <1>1, <1>2, <1>3, <1>5, <2>4 DEF Turn
    <3>2. Midway(h, Turn(s, d), D, d, e, End(h, e)) BY <1>5, <2>4, <3>1, TurnAdvances
    <3> QED BY <2>2, <3>2 DEF TurnGoesOn
  <2> QED BY <2>3, <2>4
<1> QED BY <1>4, <1>5

-----------------------------------------------------------------------------
(* A page *)

\* Heap g is h after the scan of the pages in D.
Scanned(h, g, D) == Changed(h, g, Walked(h, D, 0, 0), {})

LEMMA ScanBegins ==
  ASSUME NEW h, NEW D, NEW d, PageToScan(h, D, d), NEW g, Scanned(h, g, D)
  PROVE  /\ Midway(h, [heap |-> g, i |-> 0], D, d, d, End(h, d))
         /\ End(h, d) >= d + MIN_BLOCK_SIZE
<1> USE LayoutAssumption DEF MIN_ALIGN, MIN_BLOCK_SIZE
<1> DEFINE n == End(h, d)
           z == Walked(h, D, 0, 0)
<1>1. d \in Survivors(h) /\ d \in Blocks(h) /\ d \in Nat /\ HeapOK(h)
  BY DEF Survivors, PageToScan, HeapOK, HeapTyped
<1>2. /\ h.size[d] \in Nat /\ h.size[d] >= 24 /\ n = d + h.size[d]
      /\ n \in Nat /\ n <= d + PageSize /\ (n = d + PageSize \/ n \in Blocks(h))
      /\ \A f \in Boundaries(h) : f > d => n <= f
      /\ d \notin Walked(h, D, d, d) /\ Walked(h, D, d, n) = Walked(h, D, d, d) \cup {d}
  BY <1>1, BlockAhead
<1>3. \A x : Walked(h, D, x, x) = {a \in Blocks(h) : \E c \in D : c <= a /\ a < c + PageSize}
             \/ x \notin Nat
  BY <1>1 DEF Walked, HeapOK, HeapTyped
<1>4. Walked(h, D, d, d) = z BY <1>1, <1>3
<1> HIDE DEF n, z
<1>5. Changed(h, g, z, {}) BY DEF Scanned, z
<1>6. Kept(h, z \cup {d}) = Kept(h, z) /\ d \in Kept(h, z)
  BY <1>1 DEF Kept
<1>7. \A a \in Kept(h, z) :
        g.size[a] = IF a \in z THEN NextBoundary(h, a) - a ELSE h.size[a]
  BY <1>5 DEF Changed
<1>8. g.size[d] = h.size[d] BY <1>2, <1>4, <1>6, <1>7
<1>9. \A a \in Kept(h, z) \ {d} :
        g.size[a] = IF a \in z \cup {d} THEN NextBoundary(h, a) - a ELSE h.size[a]
  BY <1>7
<1>10. Changed(h, g, z \cup {d}, {d}) BY <1>5, <1>6, <1>9 DEF Changed
<1> DEFINE s == [heap |-> g, i |-> 0]
<1>11. s.heap = g /\ s.i = 0 OBVIOUS
<1> HIDE DEF s
<1>12. Midway(h, s, D, d, d, n)
  <2>1. Walked(h, D, d, n) = z \cup {d} BY <1>2, <1>4
  <2>2. g.size[d] = n - d /\ d - d = 0 /\ d <= d /\ d < n BY <1>1, <1>2, <1>8
  <2> QED BY <1>1, <1>2, <1>10, <1>11, <2>1, <2>2 DEF Midway, n
<1>13. n >= d + 24 BY <1>1, <1>2
<1> QED BY <1>12, <1>13 DEF s, n

LEMMA ScanEnds ==
  ASSUME NEW h, NEW D, NEW d, PageToScan(h, D, d),
         NEW s, NEW b, Midway(h, s, D, d, b, d + PageSize)
  PROVE  Scanned(h, s.heap, D \cup {d})
<1> USE LayoutAssumption DEF MIN_ALIGN, MIN_BLOCK_SIZE
<1> DEFINE e == d + PageSize
           z == Walked(h, D, d, e)
           g == s.heap
<1>1. /\ b \in Survivors(h) /\ d <= b /\ b < e
      /\ \A f \in Boundaries(h) : f > b => e <= f
      /\ Changed(h, g, z, {b}) /\ g.size[b] = e - b
  BY DEF Midway
<1>2. b \in Nat /\ b \in Blocks(h) /\ d \in Nat /\ d \in h.pages /\ HeapOK(h) /\ e \in Nat
  BY <1>1 DEF Survivors, PageToScan, HeapOK, HeapTyped
<1>3. e \in Boundaries(h) BY <1>2 DEF Boundaries
<1>4. NextBoundary(h, b) = e BY <1>1, <1>2, <1>3, NextIs
<1>5. b \in z BY <1>1, <1>2 DEF Walked
<1>6. z = Walked(h, D \cup {d}, 0, 0)
  <2>1. \A a \in Blocks(h) : ~ (0 <= a /\ a < 0) BY <1>2 DEF HeapOK, HeapTyped
  <2> QED BY <2>1 DEF Walked
<1> HIDE DEF e, z, g
<1>7. \A a \in Kept(h, z) \ {} :
        g.size[a] = IF a \in z THEN NextBoundary(h, a) - a ELSE h.size[a]
  <2>1. \A a \in Kept(h, z) \ {b} :
          g.size[a] = IF a \in z THEN NextBoundary(h, a) - a ELSE h.size[a]
    BY <1>1 DEF Changed
  <2> QED BY <1>1, <1>4, <1>5, <2>1
<1>8. Changed(h, g, z, {}) BY <1>1, <1>7 DEF Changed
<1> QED BY <1>6, <1>8 DEF Scanned, g

LEMMA ScanPageScans ==
  ASSUME NEW h, NEW D, NEW d, PageToScan(h, D, d), NEW g, Scanned(h, g, D)
  PROVE  Scanned(h, ScanPage(g, d), D \cup {d})
<1> USE LayoutAssumption DEF MIN_BLOCK_SIZE
<1>1. PICK f : Turns(f, g, d, MaxTurns) /\ ScanPage(g, d) = f[MaxTurns].heap
  BY ScanPageIs
<1>2. /\ MaxTurns \in Nat /\ PageSize \in Nat /\ d \in Nat
      /\ (MaxTurns + 1) * 24 > PageSize
  <2>1. d \in Nat BY DEF PageToScan, HeapOK, HeapTyped
  <2> QED BY <2>1 DEF MaxTurns
<1> DEFINE Far(n, e) == e = d + PageSize \/ e >= d + ((n + 1) * 24)
           Reached(n) == \E b, e : Midway(h, f[n], D, d, b, e) /\ Far(n, e)
<1>3. Reached(0)
  <2>1. f[0] = [heap |-> g, i |-> 0] BY <1>1, <1>2 DEF Turns
  <2>2. Midway(h, [heap |-> g, i |-> 0], D, d, d, End(h, d)) /\ End(h, d) >= d + 24
    BY ScanBegins
  <2> QED BY <2>1, <2>2
<1>4. ASSUME NEW n \in 0 .. MaxTurns, n # 0, Reached(n - 1)
      PROVE  Reached(n)
  <2>1. PICK b, e : Midway(h, f[n - 1], D, d, b, e) /\ Far(n - 1, e) BY <1>4
  <2>2. f[n] = Turn(f[n - 1], d) BY <1>1, <1>2, <1>4 DEF Turns
  <2>3. TurnGoesOn(h, Turn(f[n - 1], d), D, d, e) BY <2>1, TurnStep
  <2>4. PICK b2, e2 : /\ Midway(h, f[n], D, d, b2, e2)
                      /\ e2 = d + PageSize \/ e2 >= e + 24
    BY <2>2, <2>3 DEF TurnGoesOn
  <2>5. e \in Nat /\ e2 \in Nat /\ e2 <= d + PageSize /\ n \in Nat
    BY <1>2, <2>1, <2>4 DEF Midway
  <2>6. Far(n, e2) BY <1>2, <2>1, <2>4, <2>5
  <2> QED BY <2>4, <2>6
<1>5. \A n \in 0 .. MaxTurns : Reached(n)
  <2> DEFINE S == {n \in 0 .. MaxTurns : ~ Reached(n)}
  <2> HIDE DEF Reached
  <2>1. SUFFICES ASSUME S # {} PROVE FALSE OBVIOUS
  <2>2. PICK m \in S : \A n \in S : m <= n
    <3>1. S \in SUBSET Nat BY <1>2
    <3> HIDE DEF S
    <3> QED BY <2>1, <3>1, LeastNat
  <2>3. m # 0 /\ m \in 0 .. MaxTurns BY <1>3, <2>2
  <2>4. m - 1 \in 0 .. MaxTurns /\ ~ (m <= m - 1) BY <1>2, <2>3
  <2>5. Reached(m - 1) BY <2>2, <2>4
  <2> QED BY <1>4, <2>2, <2>3, <2>5
<1>6. PICK b, e : Midway(h, f[MaxTurns], D, d, b, e) /\ Far(MaxTurns, e)
  BY <1>2, <1>5
<1>7. e = d + PageSize
  <2>1. e \in Nat /\ e <= d + PageSize BY <1>6 DEF Midway
  <2> QED BY <1>2, <1>6, <2>1
<1>8. Midway(h, f[MaxTurns], D, d, b, d + PageSize) BY <1>6, <1>7
<1>9. Scanned(h, f[MaxTurns].heap, D \cup {d}) BY <1>8, ScanEnds
<1> QED BY <1>1, <1>9

-----------------------------------------------------------------------------
(* All pages *)

Passes(f, h, pl, k) ==
  f = [n \in 0 .. k |-> IF n = 0 THEN h ELSE ScanPage(f[n - 1], pl[n])]

LEMMA PassesExist ==
  ASSUME NEW h, NEW pl, NEW k \in Nat
  PROVE  \E f : Passes(f, h, pl, k)
<1> DEFINE S == {n \in Nat : ~ \E f : Passes(f, h, pl, n)}
<1>1. SUFFICES ASSUME S # {} PROVE FALSE OBVIOUS
<1>2. PICK m \in S : \A n \in S : m <= n
  <2>1. S \in SUBSET Nat OBVIOUS
  <2> HIDE DEF S
  <2> QED BY <1>1, <2>1, LeastNat
<1>3. m \in Nat /\ ~ \E f : Passes(f, h, pl, m) BY <1>2
<1>4. CASE m = 0
  <2> DEFINE f == [n \in 0 .. 0 |-> h]
  <2>1. Passes(f, h, pl, 0) BY DEF Passes
  <2> QED BY <1>3, <1>4, <2>1
<1>5. CASE m # 0
  <2>1. m - 1 \in Nat /\ m - 1 \notin S BY <1>2, <1>3, <1>5
  <2>2. PICK f : Passes(f, h, pl, m - 1) BY <2>1
  <2> DEFINE g == [n \in 0 .. m |-> IF n = m THEN ScanPage(f[m - 1], pl[m]) ELSE f[n]]
  <2>3. \A n \in 0 .. m : g[n] = IF n = 0 THEN h ELSE ScanPage(g[n - 1], pl[n])
    <3> TAKE n \in 0 .. m
    <3>1. CASE n = m
      <4>1. g[n] = ScanPage(f[m - 1], pl[m]) /\ g[n - 1] = f[n - 1] BY <1>3, <1>5, <3>1
      <4> QED BY <1>5, <3>1, <4>1
    <3>2. CASE n # m
      <4>1. n \in 0 .. m - 1 /\ g[n] = f[n] BY <1>3, <3>2
      <4>2. f[n] = IF n = 0 THEN h ELSE ScanPage(f[n - 1], pl[n])
        BY <2>2, <4>1 DEF Passes
      <4>3. n # 0 => g[n - 1] = f[n - 1] BY <1>3, <3>2
      <4> QED BY <4>1, <4>2, <4>3
    <3> QED BY <3>1, <3>2
  <2>4. Passes(g, h, pl, m)
    <3>1. g = [n \in 0 .. m |-> g[n]] OBVIOUS
    <3> HIDE DEF g
    <3> QED BY <2>3, <3>1 DEF Passes
  <2> QED BY <1>3, <2>4
<1> QED BY <1>4, <1>5

LEMMA ScanIs ==
  ASSUME NEW h, NEW pl, Cardinality(h.pages) \in Nat
  PROVE  \E f : /\ Passes(f, h, pl, Cardinality(h.pages))
                /\ Scan(h, pl) = f[Cardinality(h.pages)]
<1> DEFINE k == Cardinality(h.pages)
           f == CHOOSE f : f = [n \in 0 .. k |->
                                  IF n = 0 THEN h ELSE ScanPage(f[n - 1], pl[n])]
<1>1. PICK g : Passes(g, h, pl, k)
  <2> HIDE DEF k
  <2>1. k \in Nat BY DEF k
  <2> QED BY <2>1, PassesExist
<1>2. Passes(f, h, pl, k) BY <1>1 DEF Passes
<1>3. Scan(h, pl) = f[k] BY DEF Scan
<1> QED BY <1>2, <1>3

\* The record a heap is.
IsHeap(h) ==
  /\ h = [pages |-> h.pages, size |-> h.size, used |-> h.used, tree |-> h.tree]
  /\ IsFiniteSet(h.pages)

LEMMA NothingScanned ==
  ASSUME NEW h, HeapOK(h), IsHeap(h)
  PROVE  Scanned(h, h, {})
<1>1. \A a \in Blocks(h) : ~ (0 <= a /\ a < 0) BY DEF HeapOK, HeapTyped
<1>2. Walked(h, {}, 0, 0) = {} BY <1>1 DEF Walked
<1>3. Kept(h, {}) = Blocks(h) BY DEF Kept
<1>4. h.size = [a \in Blocks(h) |-> h.size[a]] /\ h.tree \subseteq Blocks(h)
  BY DEF HeapOK, HeapTyped
<1>5. Changed(h, h, {}, {}) BY <1>3, <1>4 DEF Changed, IsHeap
<1> QED BY <1>2, <1>5 DEF Scanned

LEMMA AllScanned ==
  ASSUME NEW h, HeapOK(h), NEW g, Scanned(h, g, h.pages)
  PROVE  g = Compacted(h)
<1> DEFINE z == Walked(h, h.pages, 0, 0)
<1>1. z = Blocks(h)
  <2>1. \A a \in Blocks(h) : \E c \in h.pages : c <= a /\ a < c + PageSize
    <3> TAKE a \in Blocks(h)
    <3>1. PICK c \in h.pages : BlockInPage(h, a, c) BY DEF HeapOK, HeapTiled
    <3>2. a \in Nat /\ c \in Nat /\ h.size[a] \in Nat /\ h.size[a] >= 24 /\ PageSize \in Nat
      BY LayoutAssumption DEF HeapOK, HeapTyped, HeapTiled, MIN_BLOCK_SIZE
    <3> QED BY <3>1, <3>2 DEF BlockInPage, End
  <2> QED BY <2>1 DEF Walked
<1>2. Kept(h, z) = Survivors(h) BY <1>1 DEF Kept, Survivors
<1>3. Changed(h, g, z, {}) BY DEF Scanned
<1>4. Survivors(h) \subseteq z BY <1>1 DEF Survivors
<1> HIDE DEF z
<1>5. \A a \in Survivors(h) : g.size[a] = NextBoundary(h, a) - a
  BY <1>2, <1>3, <1>4 DEF Changed
<1>6. g.size = [a \in Survivors(h) |-> g.size[a]] BY <1>2, <1>3 DEF Changed
<1>7. g.size = [a \in Survivors(h) |-> NextBoundary(h, a) - a] BY <1>5, <1>6
<1>8. g.tree = h.tree \cap Survivors(h) BY <1>2, <1>3 DEF Changed
<1>9. g = [pages |-> h.pages, size |-> g.size, used |-> h.used, tree |-> g.tree]
  BY <1>3 DEF Changed
<1> QED BY <1>7, <1>8, <1>9 DEF Compacted

LEMMA ScanCompacts ==
  ASSUME NEW h, HeapOK(h), IsHeap(h),
         NEW pl \in Bijection(1 .. Cardinality(h.pages), h.pages)
  PROVE  Scan(h, pl) = Compacted(h)
<1> DEFINE k == Cardinality(h.pages)
           Done(n) == {pl[j] : j \in 1 .. n}
<1>1. k \in Nat BY FS_CardinalityType DEF IsHeap
<1>2. PICK f : Passes(f, h, pl, k) /\ Scan(h, pl) = f[k] BY <1>1, ScanIs
<1>3. /\ pl \in [1 .. k -> h.pages]
      /\ \A i, j \in 1 .. k : pl[i] = pl[j] => i = j
      /\ \A p \in h.pages : \E j \in 1 .. k : pl[j] = p
  BY DEF Bijection, Injection, Surjection, IsInjective
<1> HIDE DEF k
<1> DEFINE Reached(n) == Scanned(h, f[n], Done(n))
<1>4. Reached(0)
  <2>1. f[0] = h BY <1>1, <1>2 DEF Passes
  <2>2. Done(0) = {} OBVIOUS
  <2> HIDE DEF Done
  <2> QED BY <2>1, <2>2, NothingScanned
<1>5. ASSUME NEW n \in 0 .. k, n # 0, Reached(n - 1) PROVE Reached(n)
  <2>1. n \in 1 .. k /\ n - 1 \in 0 .. k BY <1>1, <1>5
  <2>2. f[n] = ScanPage(f[n - 1], pl[n]) BY <1>1, <1>2, <1>5 DEF Passes
  <2>3. pl[n] \in h.pages BY <1>3, <2>1
  <2>4. Done(n - 1) \subseteq h.pages
    <3>1. \A j \in 1 .. n - 1 : j \in 1 .. k BY <1>1, <2>1
    <3> QED BY <1>3, <3>1
  <2>5. pl[n] \notin Done(n - 1)
    <3>1. \A j \in 1 .. n - 1 : j \in 1 .. k /\ j # n BY <1>1, <2>1
    <3> QED BY <1>3, <2>1, <3>1
  <2>6. Done(n) = Done(n - 1) \cup {pl[n]}
    <3>1. \A j : j \in 1 .. n <=> j \in 1 .. n - 1 \/ j = n BY <1>1, <2>1
    <3> QED BY <3>1
  <2>7. Scanned(h, f[n - 1], Done(n - 1)) BY <1>5
  <2> HIDE DEF Done
  <2>8. PageToScan(h, Done(n - 1), pl[n]) BY <2>3, <2>4, <2>5 DEF PageToScan
  <2>9. Scanned(h, ScanPage(f[n - 1], pl[n]), Done(n - 1) \cup {pl[n]})
    BY <2>7, <2>8, ScanPageScans
  <2> QED BY <2>2, <2>6, <2>9
<1>6. \A n \in 0 .. k : Reached(n)
  <2> DEFINE S == {n \in 0 .. k : ~ Reached(n)}
  <2> HIDE DEF Reached
  <2>1. SUFFICES ASSUME S # {} PROVE FALSE OBVIOUS
  <2>2. PICK m \in S : \A n \in S : m <= n
    <3>1. S \in SUBSET Nat BY <1>1
    <3> HIDE DEF S
    <3> QED BY <2>1, <3>1, LeastNat
  <2>3. m # 0 /\ m \in 0 .. k BY <1>4, <2>2
  <2>4. m - 1 \in 0 .. k /\ ~ (m <= m - 1) BY <1>1, <2>3
  <2>5. Reached(m - 1) BY <2>2, <2>4
  <2> QED BY <1>5, <2>2, <2>3, <2>5
<1>7. Scanned(h, f[k], Done(k))
  <2> HIDE DEF Done
  <2>1. k \in 0 .. k BY <1>1
  <2> QED BY <1>6, <2>1
<1>8. Done(k) = h.pages BY <1>3
<1> HIDE DEF Done
<1>9. Scanned(h, f[k], h.pages) BY <1>7, <1>8
<1> QED BY <1>2, <1>9, AllScanned

-----------------------------------------------------------------------------
(* The theorem *)

LEMMA HeapsStayHeaps ==
  ASSUME IsHeap(heap), [Next]_vars
  PROVE  IsHeap(heap')
<1>1. \A h, b, r : IsHeap(h) => IsHeap(Carved(h, b, r)) BY DEF IsHeap, Carved
<1>2. \A h : IsHeap(h) => IsHeap(Compacted(h)) BY DEF IsHeap, Compacted
<1>3. \A h, c : IsHeap(h) => IsHeap(AddPage(h, c))
  BY FS_AddElement DEF IsHeap, AddPage
<1>4. IsHeap(EmptyHeap) BY FS_EmptySet DEF IsHeap, EmptyHeap
<1>5. ASSUME NEW r \in Requests, allocate_align(r) PROVE IsHeap(heap')
  <2>1. CASE AllocFromTree(r) BY <1>1, <2>1 DEF AllocFromTree, Serve
  <2>2. CASE AllocCompacted(r) BY <1>1, <1>2, <2>2 DEF AllocCompacted, Serve
  <2>3. CASE AllocNewPage(r) BY <1>1, <1>2, <1>3, <2>3 DEF AllocNewPage, Serve
  <2>4. CASE AllocDenied(r) BY <1>2, <2>4 DEF AllocDenied
  <2>5. CASE AllocLarge(r) \/ AllocLargeRefused(r)
    BY <2>5 DEF AllocLarge, AllocLargeRefused
  <2> QED BY <1>5, <2>1, <2>2, <2>3, <2>4, <2>5 DEF allocate_align
<1>6. ASSUME NEW p \in DOMAIN live, deallocate(p) PROVE IsHeap(heap')
  BY <1>6 DEF deallocate, FreeBlock, FreeLarge, FreeWild, IsHeap
<1>7. CASE compact BY <1>2, <1>7 DEF compact
<1>8. CASE destroy BY <1>4, <1>8 DEF destroy
<1>9. CASE UNCHANGED vars BY <1>9 DEF vars
<1> QED BY <1>5, <1>6, <1>7, <1>8, <1>9 DEF Next

\* In every reachable heap the loops of compact(), in any order of the pages,
\* produce exactly the heap Compacted: the merges while walking leave no free
\* block unmerged, walk into no merged header and stop within the page.
THEOREM CompactScans == ASSUME RequestsFit PROVE Spec => []CompactIsTheScan
<1>1. Init => IsHeap(heap)
  BY FS_EmptySet DEF Init, EmptyHeap, IsHeap
<1>2. IsHeap(heap) /\ [Next]_vars => IsHeap(heap)'
  BY HeapsStayHeaps DEF IsHeap
<1>3. Inv /\ IsHeap(heap) => CompactIsTheScan
  BY InvFacts, ScanCompacts DEF CompactIsTheScan
<1> QED BY <1>1, <1>2, <1>3, SpecInv, PTL DEF Spec
=============================================================================
