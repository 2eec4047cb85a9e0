----------------------------- MODULE DataFormat -----------------------------
(***************************************************************************)
(* What odstream writes of a record and idstream reads of it.  A record is *)
(* a number, an array of numbers whose length both ends know, a text of    *)
(* one-byte characters, or a wide text whose characters are numbers.  A    *)
(* number takes Width bytes of Base values each: 2, 4 or 8 bytes of 256.   *)
(***************************************************************************)
EXTENDS Integers, SequencesExt

CONSTANTS Base, Width
ASSUME FormatAssumption == Base \in Nat \ {0, 1} /\ Width \in Nat \ {0}

Value(n)  == [kind |-> "value", of |-> << n >>]
Array(s)  == [kind |-> "array", of |-> s]
Text(s)   == [kind |-> "text", of |-> s]
Wide(s)   == [kind |-> "wide", of |-> s]

\* The bytes of a number, the least significant first, and back.
write_le(n) == [i \in 1 .. Width |-> (n \div Base ^ (i - 1)) % Base]
read_le(bytes) == FoldRight(LAMBDA b, sum : sum * Base + b, bytes, 0)

Numbers(s) == [i \in DOMAIN s |-> write_le(s[i])]

\* The writes, one per call of the stream below, that make up a record.
Pieces(r) ==
  CASE r.kind \in {"value", "array"} -> Numbers(r.of)
    [] r.kind = "text" -> << write_le(Len(r.of)), r.of >>
    [] r.kind = "wide" -> << write_le(Len(r.of)) >> \o Numbers(r.of)
Encode(r) == FlattenSeq(Pieces(r))
EncodeAll(rs) == FlattenSeq([i \in DOMAIN rs |-> Encode(rs[i])])
=============================================================================
