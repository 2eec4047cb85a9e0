------------------------------ MODULE BaseBuf ------------------------------
(***************************************************************************)
(* basebuf: an area of bytes, the position of the next one and the limit.  *)
(* A release build: the range checks of the debug build are not there.     *)
(* The mark, which only reset() uses, is left out.                         *)
(***************************************************************************)
EXTENDS Integers, Sequences

NewBuffer(capacity) == [data |-> [i \in 1 .. capacity |-> 0], position |-> 0, limit |-> capacity]

capacity(b) == Len(b.data)
remaining(b) == IF b.limit < b.position THEN 0 ELSE b.limit - b.position

\* The bytes from the position to the limit.
Unread(b) == SubSeq(b.data, b.position + 1, b.limit)

position(b, new) == [b EXCEPT !.position = new]
clear(b) == [b EXCEPT !.position = 0, !.limit = capacity(b)]
flip(b) == [b EXCEPT !.limit = b.position, !.position = 0]

\* Bytes are stored from the given place on.
Fill(b, from, bytes) ==
  [b EXCEPT !.data = [i \in DOMAIN @ |-> IF i - from \in DOMAIN bytes THEN bytes[i - from] ELSE @[i]]]

\* The unread bytes go to the front, and writing goes on behind them; an
\* area without any stays as it is.
compact(b) ==
  IF remaining(b) = 0 THEN b
  ELSE [Fill(b, 0, Unread(b)) EXCEPT !.position = remaining(b), !.limit = capacity(b)]

put(b, byte) == [Fill(b, b.position, << byte >>) EXCEPT !.position = @ + 1]
=============================================================================
