----------------------------- MODULE ListLemmas -----------------------------
(***************************************************************************)
(* What the proofs about lists share: least and greatest numbers, and what *)
(* the operators on sequences return, element by element.                  *)
(***************************************************************************)
EXTENDS Integers, SequencesExt, FiniteSetTheorems, WellFoundedInduction, TLAPS

-----------------------------------------------------------------------------
(* Least and greatest *)

\* Of natural numbers of which some fails, one fails first.
LEMMA LeastNat ==
  ASSUME NEW S \in SUBSET Nat, S # {}
  PROVE  \E m \in S : \A n \in S : m <= n
<1>1. IsWellFoundedOn(OpToRel(<, Nat), Nat) BY NatLessThanWellFounded
<1>2. PICK m \in S : \A n \in S : ~ (<<n, m>> \in OpToRel(<, Nat))
  BY <1>1, WFMin
<1>3. \A n \in S : ~ (n < m) BY <1>2 DEF OpToRel
<1> QED BY <1>3

LEMMA MaxOf ==
  ASSUME NEW k \in Nat, NEW s \in SUBSET (1 .. k), k \in s
  PROVE  Max(s) = k
<1>1. \A y \in s : y \in Nat /\ k >= y OBVIOUS
<1>2. \A x \in s : (\A y \in s : x >= y) => x = k BY <1>1
<1> QED BY <1>1, <1>2 DEF Max

LEMMA MaxIn ==
  ASSUME NEW n \in Nat, NEW s \in SUBSET (1 .. n), s # {}
  PROVE  Max(s) \in s
<1> DEFINE S == {n - x : x \in s}
<1>1. S \in SUBSET Nat /\ S # {}
  <2>1. \A x \in s : n - x \in Nat OBVIOUS
  <2> QED BY <2>1
<1>2. PICK m \in S : \A k \in S : m <= k
  <2> HIDE DEF S
  <2> QED BY <1>1, LeastNat
<1>3. PICK x \in s : m = n - x BY <1>2
<1>4. \A y \in s : x >= y
  <2> TAKE y \in s
  <2>1. n - x <= n - y BY <1>2, <1>3
  <2> QED BY <2>1
<1> HIDE DEF S
<1> QED BY <1>3, <1>4 DEF Max

-----------------------------------------------------------------------------
(* Sequences *)

LEMMA Joined ==
  ASSUME NEW X, NEW f \in Seq(X), NEW g \in Seq(X)
  PROVE  /\ f \o g \in Seq(X) /\ Len(f \o g) = Len(f) + Len(g)
         /\ \A x \in 1 .. Len(f) + Len(g) : (f \o g)[x] = IF x <= Len(f) THEN f[x] ELSE g[x - Len(f)]
OBVIOUS

\* Sequence t is s with v in front of its element p.
Inserted(V, t, s, p, v) ==
  /\ t \in Seq(V) /\ Len(t) = Len(s) + 1
  /\ \A x \in 1 .. Len(s) + 1 : t[x] = IF x < p THEN s[x] ELSE IF x = p THEN v ELSE s[x - 1]

LEMMA InsertAtIs ==
  ASSUME NEW V, NEW s \in Seq(V), NEW p \in 1 .. Len(s) + 1, NEW v \in V
  PROVE  Inserted(V, InsertAt(s, p, v), s, p, v)
<1> DEFINE f == SubSeq(s, 1, p - 1)
           g == SubSeq(s, p, Len(s))
<1>1. f \in Seq(V) /\ Len(f) = p - 1 /\ \A x \in 1 .. p - 1 : f[x] = s[x] OBVIOUS
<1>2. g \in Seq(V) /\ Len(g) = Len(s) - p + 1 /\ \A x \in 1 .. Len(s) - p + 1 : g[x] = s[x + p - 1]
  OBVIOUS
<1>3. InsertAt(s, p, v) = (f \o << v >>) \o g BY DEF InsertAt
<1> HIDE DEF f, g
<1> DEFINE h == f \o << v >>
           k == h \o g
<1>4. << v >> \in Seq(V) /\ Len(<< v >>) = 1 /\ << v >>[1] = v OBVIOUS
<1>5. /\ h \in Seq(V) /\ Len(h) = p
      /\ \A x \in 1 .. p : h[x] = IF x <= p - 1 THEN f[x] ELSE << v >>[x - (p - 1)]
  BY <1>1, <1>4, Joined
<1>6. \A x \in 1 .. p : h[x] = IF x < p THEN s[x] ELSE v
  <2> HIDE DEF h
  <2>1. \A x \in 1 .. p - 1 : h[x] = s[x] BY <1>1, <1>5
  <2>2. h[p] = v BY <1>4, <1>5
  <2> QED BY <2>1, <2>2
<1> HIDE DEF h
<1>7. /\ k \in Seq(V) /\ Len(k) = Len(s) + 1
      /\ \A x \in 1 .. Len(s) + 1 : k[x] = IF x <= p THEN h[x] ELSE g[x - p]
  <2>1. p + (Len(s) - p + 1) = Len(s) + 1 OBVIOUS
  <2>2. /\ k \in Seq(V) /\ Len(k) = Len(h) + Len(g)
        /\ \A x \in 1 .. Len(h) + Len(g) : k[x] = IF x <= Len(h) THEN h[x] ELSE g[x - Len(h)]
    BY <1>2, <1>5, Joined
  <2> HIDE DEF k
  <2> QED BY <1>2, <1>5, <2>1, <2>2
<1>8. ASSUME NEW x \in 1 .. Len(s) + 1
      PROVE  k[x] = IF x < p THEN s[x] ELSE IF x = p THEN v ELSE s[x - 1]
  <2> HIDE DEF k
  <2>1. CASE x <= p BY <2>1, <1>6, <1>7
  <2>2. CASE x > p
    <3>1. x - p \in 1 .. Len(s) - p + 1 /\ (x - p) + p - 1 = x - 1 BY <2>2
    <3>2. g[x - p] = s[x - 1] BY <3>1, <1>2
    <3>3. k[x] = g[x - p] BY <2>2, <1>7
    <3> QED BY <2>2, <3>2, <3>3
  <2> QED BY <2>1, <2>2
<1>9. Inserted(V, k, s, p, v)
  <2> HIDE DEF k
  <2> QED BY <1>7, <1>8 DEF Inserted
<1> QED BY <1>3, <1>9 DEF h

LEMMA RemoveAtIs ==
  ASSUME NEW V, NEW s \in Seq(V), NEW p \in 1 .. Len(s)
  PROVE  /\ RemoveAt(s, p) \in Seq(V) /\ Len(RemoveAt(s, p)) = Len(s) - 1
         /\ \A x \in 1 .. Len(s) - 1 : RemoveAt(s, p)[x] = IF x < p THEN s[x] ELSE s[x + 1]
<1> DEFINE f == SubSeq(s, 1, p - 1)
           g == SubSeq(s, p + 1, Len(s))
<1>1. f \in Seq(V) /\ Len(f) = p - 1 /\ \A x \in 1 .. p - 1 : f[x] = s[x] OBVIOUS
<1>2. g \in Seq(V) /\ Len(g) = Len(s) - p /\ \A x \in 1 .. Len(s) - p : g[x] = s[x + p]
  OBVIOUS
<1>3. RemoveAt(s, p) = f \o g BY DEF RemoveAt
<1> HIDE DEF f, g
<1> DEFINE k == f \o g
<1>4. /\ k \in Seq(V) /\ Len(k) = Len(s) - 1
      /\ \A x \in 1 .. Len(s) - 1 : k[x] = IF x <= p - 1 THEN f[x] ELSE g[x - (p - 1)]
  <2>1. (p - 1) + (Len(s) - p) = Len(s) - 1 OBVIOUS
  <2>2. /\ k \in Seq(V) /\ Len(k) = Len(f) + Len(g)
        /\ \A x \in 1 .. Len(f) + Len(g) : k[x] = IF x <= Len(f) THEN f[x] ELSE g[x - Len(f)]
    BY <1>1, <1>2, Joined
  <2> HIDE DEF k
  <2> QED BY <1>1, <1>2, <2>1, <2>2
<1>5. ASSUME NEW x \in 1 .. Len(s) - 1
      PROVE  k[x] = IF x < p THEN s[x] ELSE s[x + 1]
  <2> HIDE DEF k
  <2>1. CASE x < p BY <2>1, <1>1, <1>4
  <2>2. CASE x >= p
    <3>1. x - (p - 1) \in 1 .. Len(s) - p /\ (x - (p - 1)) + p = x + 1 BY <2>2
    <3> QED BY <2>2, <3>1, <1>2, <1>4
  <2> QED BY <2>1, <2>2
<1> QED BY <1>3, <1>4, <1>5
LEMMA AppendIsInsert ==
  ASSUME NEW V, NEW s \in Seq(V), NEW v \in V
  PROVE  Append(s, v) = InsertAt(s, Len(s) + 1, v)
<1> DEFINE t == InsertAt(s, Len(s) + 1, v)
           u == Append(s, v)
<1>1. t \in Seq(V) /\ Len(t) = Len(s) + 1
      /\ \A x \in 1 .. Len(s) + 1 :
           t[x] = IF x < Len(s) + 1 THEN s[x] ELSE IF x = Len(s) + 1 THEN v ELSE s[x - 1]
  <2> DEFINE p == Len(s) + 1
  <2>1. p \in 1 .. Len(s) + 1 OBVIOUS
  <2> HIDE DEF p
  <2>2. Inserted(V, InsertAt(s, p, v), s, p, v) BY <2>1, InsertAtIs
  <2>3. t = InsertAt(s, p, v) /\ p = Len(s) + 1 BY DEF p
  <2> HIDE DEF t
  <2> QED BY <2>2, <2>3 DEF Inserted
<1>2. u \in Seq(V) /\ Len(u) = Len(s) + 1
      /\ \A x \in 1 .. Len(s) + 1 : u[x] = IF x < Len(s) + 1 THEN s[x] ELSE v
  <2>1. u \in Seq(V) /\ Len(u) = Len(s) + 1 OBVIOUS
  <2>2. \A x \in 1 .. Len(s) : u[x] = s[x] OBVIOUS
  <2>3. u[Len(s) + 1] = v OBVIOUS
  <2>4. \A x \in 1 .. Len(s) + 1 : x < Len(s) + 1 => x \in 1 .. Len(s) OBVIOUS
  <2>5. \A x \in 1 .. Len(s) + 1 : ~ (x < Len(s) + 1) => x = Len(s) + 1 OBVIOUS
  <2> HIDE DEF u
  <2> QED BY <2>1, <2>2, <2>3, <2>4, <2>5
<1> HIDE DEF t, u
<1>3. \A x \in 1 .. Len(s) + 1 : t[x] = u[x]
  <2> TAKE x \in 1 .. Len(s) + 1
  <2>1. CASE x < Len(s) + 1 BY <1>1, <1>2, <2>1
  <2>2. CASE x = Len(s) + 1
    <3>1. ~ (x < Len(s) + 1) BY <2>2
    <3> QED BY <1>1, <1>2, <2>2, <3>1
  <2> QED BY <2>1, <2>2
<1>4. t = u BY <1>1, <1>2, <1>3
<1> QED BY <1>4 DEF t, u
=============================================================================
