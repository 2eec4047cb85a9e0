------------------------------- MODULE Unicode -------------------------------
(***************************************************************************)
(* tc::utf: texts of code points as UTF-8 bytes and as UTF-16 units in     *)
(* either byte order, and the conversions between the two, with and        *)
(* without a bounded buffer for the result.  << >> stands for an encoding  *)
(* that throws utf_format_exception.                                       *)
(***************************************************************************)
EXTENDS Integers, SequencesExt

Orders == {"native", "swapped"}
\* utils::write_with_order and read_with_order of a unit of 16 bits.
Ordered(unit, order) ==
  IF order = "native" THEN unit ELSE ((unit % 256) * 256) + (unit \div 256)
-----------------------------------------------------------------------------
(* UTF-8 *)

\* 0: the byte is no header, and the code throws.
u8_symbol_size(b) ==
  CASE b < 128       -> 1
    [] b \div 32 = 6  -> 2
    [] b \div 16 = 14 -> 3
    [] b \div 8 = 30  -> 4
    [] OTHER         -> 0
u8_to_codepoint(u, off) ==
  LET n == u8_symbol_size(u[off + 1])
      more(point, b) == point * 64 + (b % 64)
  IN IF n = 1 THEN u[off + 1]
     ELSE FoldLeft(more, u[off + 1] % (2 ^ (7 - n)), SubSeq(u, off + 2, off + n))
u8_from_codepoint(c) ==
  LET bits(k) == 128 + ((c \div (64 ^ k)) % 64)
  IN CASE c < 127                        -> << c >>
       [] c >= 128 /\ c < 2047           -> << 192 + (c \div 64), bits(0) >>
       [] c >= 2048 /\ c < 65535         -> << 224 + (c \div 4096), bits(1), bits(0) >>
       [] c >= 65536 /\ c < 1114111      -> << 240 + (c \div 262144), bits(2), bits(1), bits(0) >>
       [] OTHER                          -> << >>

\* The points an iterator meets from off to the end of the text.
RECURSIVE u8_points(_, _)
u8_points(u, off) ==
  IF off = Len(u) THEN << >>
  ELSE << u8_to_codepoint(u, off) >> \o u8_points(u, off + u8_symbol_size(u[off + 1]))
-----------------------------------------------------------------------------
(* UTF-16 *)

is_high_surrogate(ch) == ch \div 1024 = 54
is_low_surrogate(ch)  == ch \div 1024 = 55
u16_symbol_size(ch) == IF is_high_surrogate(ch) THEN 2 ELSE 1
u16_to_codepoint(u, off, order) ==
  LET ch1 == Ordered(u[off + 1], order)
      ch2 == Ordered(u[off + 2], order)
  IN IF is_high_surrogate(ch1) /\ is_low_surrogate(ch2)
     THEN ((ch1 % 1024) * 1024) + (ch2 % 1024) + 65536
     ELSE ch1
u16_from_codepoint(c, order) ==
  LET high == 55296 + ((c - 65536) \div 1024)
      low  == 56320 + ((c - 65536) % 1024)
  IN IF c < 65536 THEN << Ordered(c, order) >>
     ELSE << Ordered(high, order), Ordered(low, order) >>

\* Mutant: the order of the units is forgotten where an iterator moves on.
RECURSIVE PointsUnordered(_, _, _)
PointsUnordered(u, off, order) ==
  IF off = Len(u) THEN << >>
  ELSE << u16_to_codepoint(u, off, order) >>
       \o PointsUnordered(u, off + u16_symbol_size(u[off + 1]), order)
RECURSIVE u16_points(_, _, _)
u16_points(u, off, order) ==
  IF off = Len(u) THEN << >>
  ELSE << u16_to_codepoint(u, off, order) >>
       \o u16_points(u, off + u16_symbol_size(Ordered(u[off + 1], order)), order)
-----------------------------------------------------------------------------
(* Conversions *)

Encoded8(points) == FlattenSeq([k \in DOMAIN points |-> u8_from_codepoint(points[k])])
Encoded16(points, order) ==
  FlattenSeq([k \in DOMAIN points |-> u16_from_codepoint(points[k], order)])
u8_to_u16(u, order) == Encoded16(u8_points(u, 0), order)
u16_to_u8(u, order) == Encoded8(u16_points(u, 0, order))

\* The characters that fit in a buffer of room, with a terminator behind them.
RECURSIVE Fit(_, _)
Fit(chars, room) ==
  IF chars = << >> THEN << >>
  ELSE IF room < Len(Head(chars)) + 1 THEN << >>
  ELSE Head(chars) \o Fit(Tail(chars), room - Len(Head(chars)))
u8_to_u16_in(u, room, order) ==
  LET points == u8_points(u, 0)
  IN Fit([k \in DOMAIN points |-> u16_from_codepoint(points[k], order)], room)
u16_to_u8_in(u, room, order) ==
  LET points == u16_points(u, 0, order)
  IN Fit([k \in DOMAIN points |-> u8_from_codepoint(points[k])], room)

-----------------------------------------------------------------------------
(* What the properties of the run are stated with. *)

\* part is the encoding of as many of the points as leave room for a terminator.
FilledUp(part, points, room, encoded(_)) ==
  \E k \in 0 .. Len(points) :
    /\ part = encoded(SubSeq(points, 1, k)) /\ Len(part) < room
    /\ k < Len(points) => Len(encoded(SubSeq(points, 1, k + 1))) >= room

RoundTrip(points) ==
  LET b == Encoded8(points)
  IN /\ u8_points(b, 0) = points
     /\ \A order \in Orders :
          LET w == Encoded16(points, order)
              in_order(part) == Encoded16(part, order)
          IN /\ u16_points(w, 0, order) = points
             /\ u8_to_u16(b, order) = w /\ u16_to_u8(w, order) = b
             /\ \A room \in 1 .. Len(b) + 1 :
                  /\ FilledUp(u16_to_u8_in(w, room, order), points, room, Encoded8)
                  /\ FilledUp(u8_to_u16_in(b, room, order), points, room, in_order)
=============================================================================
