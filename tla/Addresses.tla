------------------------------ MODULE Addresses ------------------------------
(***************************************************************************)
(* tc::inet_address from text and to text.  A text is a sequence of words: *)
(* ".", ":", a number (a run of digits in one base) or anything else; no   *)
(* two numbers stand side by side.                                         *)
(***************************************************************************)
EXTENDS Integers, SequencesExt

CONSTANT Numbers
  \* word -> [dec |-> what it is in base ten or -1, hex |-> in base sixteen,
  \*          plain |-> it has no zeroes in front]

Rejected == << >>   \* illegal_argument_exception
IsNumber(w) == w \in DOMAIN Numbers

\* The tokens of next_tok(); END goes on for ever behind the last of them.
RECURSIVE tokens(_)
tokens(s) ==
  IF s = << >> THEN << >>
  ELSE IF Len(s) > 1 /\ s[1] = ":" /\ s[2] = ":" THEN << "::" >> \o tokens(SubSeq(s, 3, Len(s)))
  ELSE << Head(s) >> \o tokens(Tail(s))
\* The first call on an empty text finds its end and answers UNDEFINED.
Tokens(s) == IF s = << >> THEN << "undefined" >> ELSE tokens(s)

parse_v4(s) ==
  LET toks == Tokens(s)
      octet(w) == IsNumber(w) /\ Numbers[w].dec \in 0 .. 255
      good == /\ Len(toks) = 7
              /\ \A k \in 1 .. 7 : IF k % 2 = 0 THEN toks[k] = "." ELSE octet(toks[k])
  IN IF good THEN [k \in 1 .. 4 |-> Numbers[toks[2 * k - 1]].dec] ELSE Rejected

\* Mutant: the first one first.
RECURSIVE shift_first(_, _, _, _)
shift_first(parts, i, stop, shift) ==
  IF stop > i THEN parts
  ELSE shift_first([parts EXCEPT ![stop + shift + 1] = parts[stop + 1]], i, stop + 1, shift)

\* The parts behind the double colon move up, the last one first.
RECURSIVE shift_up(_, _, _, _)
shift_up(parts, i, stop, shift) ==
  IF i < stop THEN parts
  ELSE shift_up([parts EXCEPT ![i + shift + 1] = parts[i + 1]], i - 1, stop, shift)

\* Other tokens are passed over; clients write at most eight numbers.
parse_v6(s) ==
  LET toks == Tokens(s)
      seen == SelectSeq(toks, IsNumber)
      pos == Len(seen)
      doubles == {k \in DOMAIN toks : toks[k] = "::"}
      colons == IF doubles = {} THEN -1
                ELSE Len(SelectSeq(SubSeq(toks, 1, CHOOSE k \in doubles : TRUE), IsNumber))
      parts == [k \in 1 .. 8 |-> IF k <= pos THEN Numbers[seen[k]].hex % 65536 ELSE 0]
      shift == 8 - pos
      moved == shift_up(parts, pos - 1, colons, shift)
  IN IF \E k, n \in doubles : k # n THEN Rejected
     ELSE IF colons = -1 THEN IF pos = 8 THEN parts ELSE Rejected
     ELSE [k \in 1 .. 8 |-> IF k - 1 \in colons .. colons + shift - 1 THEN 0 ELSE moved[k]]

\* The constructor asks for the first kind of separator.
inet_address(s) ==
  IF Contains(s, ".") THEN parse_v4(s)
  ELSE IF Contains(s, ":") THEN parse_v6(s)
  ELSE Rejected

\* What toString prints behind the host name.
Word(n, base) == CHOOSE w \in DOMAIN Numbers : Numbers[w].plain /\ Numbers[w][base] = n
Between(words, sep) == FlattenSeq([k \in DOMAIN words |-> IF k = 1 THEN << words[k] >> ELSE << sep, words[k] >>])
print_v4(octets) == Between([k \in DOMAIN octets |-> Word(octets[k], "dec")], ".")
print_v6(groups) == Between([k \in DOMAIN groups |-> Word(groups[k], "hex")], ":")
-----------------------------------------------------------------------------
(* What the properties of the run are stated with. *)

\* A text without the zeroes in front of its decimal numbers.
Plain(words) == [k \in DOMAIN words |-> IF IsNumber(words[k]) THEN Word(Numbers[words[k]].dec, "dec") ELSE words[k]]

\* The spellings of an IPv6 address: in full, or one run of zeroes as "::".
Spellings(groups) ==
  {print_v6(groups)} \cup
  {print_v6(SubSeq(groups, 1, i)) \o << ":", ":" >> \o print_v6(SubSeq(groups, j + 1, 8)) :
     << i, j >> \in {ij \in (0 .. 7) \X (1 .. 8) :
                      ij[1] < ij[2] /\ \A k \in ij[1] + 1 .. ij[2] : groups[k] = 0}}
=============================================================================
