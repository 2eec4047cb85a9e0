---------------------------- MODULE InputStreams ----------------------------
(***************************************************************************)
(* A client reads records through an idstream, which reads from an         *)
(* ibstream (or straight) from an ifstream or an imstream.  A read of the  *)
(* environment may fail before or after its first bytes: an ifstream       *)
(* reports the second as a short count (ifstream.cpp:71-83).               *)
(***************************************************************************)
EXTENDS DataFormat, FiniteSets, FiniteSetsExt

CONSTANTS Streams, Capacities, MaxFaults

VARIABLES
  store,     \* the file or the memory: its field `data' is what there is to read
  source,    \* the ifstream or imstream
  in,        \* ibstream object -> its fields, or NoStream
  faults,
  ret

NoStream == [buffer |-> << >>, capacity |-> 0, open |-> FALSE]
NoSource == [kind |-> "file", pos |-> 0, open |-> FALSE]

live == {i \in Streams : in[i].open}
Buffer == IF live = {} THEN << >> ELSE in[CHOOSE i \in live : TRUE].buffer

\* What a call works on: `got' is what its last read returned, `how' the way
\* that read ended, `value' what was decoded so far.
Reader == [pos |-> source.pos, buffer |-> Buffer, faults |-> faults,
           got |-> << >>, how |-> "ok", value |-> << >>]
-----------------------------------------------------------------------------
Taken(r, k) == [r EXCEPT !.pos = @ + k, !.got = SubSeq(store.data, r.pos + 1, r.pos + k), !.how = "ok"]
AtEnd(r) == [r EXCEPT !.got = << >>, !.how = "eof"]
Rest(r) == Len(store.data) - r.pos
Smaller(a, b) == IF a < b THEN a ELSE b

ifstream_read(r, n) ==
  IF n > 0 /\ Rest(r) = 0 THEN {AtEnd(r)}
  ELSE {Taken(r, Smaller(n, Rest(r)))} \cup
       IF r.faults = MaxFaults THEN {}
       ELSE {[Taken(r, k) EXCEPT !.faults = @ + 1, !.how = IF k = 0 THEN "throws" ELSE "ok"] :
               k \in 0 .. Smaller(n, Rest(r)) - 1}

imstream_read(r, n) ==
  IF Smaller(n, Rest(r)) = 0 THEN {AtEnd(r)} ELSE {Taken(r, Smaller(n, Rest(r)))}

source_read(r, n) == IF source.kind = "file" THEN ifstream_read(r, n) ELSE imstream_read(r, n)

\* ibstream::read copies from its buffer and fills it again until it has n
\* bytes or the source has none.
RECURSIVE Gather(_, _, _)
Gather(r, n, capacity) ==
  IF Len(r.got) >= n THEN {r}
  ELSE IF r.buffer # << >>
    THEN LET k == Smaller(Len(r.buffer), n - Len(r.got))
         IN Gather([r EXCEPT !.got = @ \o SubSeq(r.buffer, 1, k), !.buffer = SubSeq(@, k + 1, Len(@))],
                   n, capacity)
  ELSE UNION {IF s.how = "throws" \/ s.got = << >> THEN {[s EXCEPT !.got = r.got]}
              ELSE Gather([s EXCEPT !.got = r.got, !.buffer = s.got], n, capacity) :
                s \in source_read(r, capacity)}

\* Mutant: what is left in the buffer is thrown away with every call.
ReadAfresh(r, n, capacity) ==
  {[s EXCEPT !.how = IF @ = "throws" THEN @ ELSE IF s.got = << >> THEN "eof" ELSE "ok"] :
     s \in Gather([r EXCEPT !.got = << >>, !.buffer = << >>], n, capacity)}
Read(r, n, capacity) ==
  {[s EXCEPT !.how = IF @ = "throws" THEN @ ELSE IF s.got = << >> THEN "eof" ELSE "ok"] :
     s \in Gather([r EXCEPT !.got = << >>, !.how = "ok"], n, capacity)}

read_bytes(r, n) ==
  IF live = {} THEN source_read(r, n)
  ELSE Read(r, n, in[CHOOSE i \in live : TRUE].capacity)
-----------------------------------------------------------------------------
\* idstream takes what one read returns: fewer bytes are an eof_exception.
Exactly(r, n) ==
  {IF s.how = "throws" \/ Len(s.got) = n THEN s ELSE [s EXCEPT !.how = "eof"] : s \in read_bytes(r, n)}

\* One step of a call after the ones that went well.
Then(rs, Step(_)) == UNION {IF r.how = "ok" THEN Step(r) ELSE {r} : r \in rs}

read_number(r) ==
  {IF s.how = "ok" THEN [s EXCEPT !.value = Append(@, read_le(s.got))] ELSE s : s \in Exactly(r, Width)}
read_numbers(r, n) == FoldLeft(LAMBDA rs, i : Then(rs, read_number), {r}, [i \in 1 .. n |-> i])

\* The length, which is not part of the value, and as many bytes or numbers.
read_text(r) ==
  Then(read_number(r),
       LAMBDA s : {IF t.how = "ok" THEN [t EXCEPT !.value = t.got] ELSE t : t \in Exactly(s, s.value[1])})
read_wide(r) ==
  Then(read_number(r), LAMBDA s : read_numbers([s EXCEPT !.value = << >>], s.value[1]))

\* A client reads a record of the shape the writer gave it.
ReadRecord(r, shape) ==
  CASE shape.kind \in {"value", "array"} -> read_numbers(r, Len(shape.of))
    [] shape.kind = "text" -> read_text(r)
    [] shape.kind = "wide" -> read_wide(r)

\* istream::skip reads a byte at a time.
SkipBytes(r, n) ==
  FoldLeft(LAMBDA rs, i :
             Then(rs, LAMBDA s : {IF t.how = "ok" THEN [t EXCEPT !.value = @ \o t.got] ELSE t :
                                    t \in read_bytes(s, 1)}),
           {r}, [i \in 1 .. n |-> i])

Become(r) ==
  /\ source' = [source EXCEPT !.pos = r.pos]
  /\ faults' = r.faults
  /\ in' = [i \in Streams |-> IF i \in live THEN [in[i] EXCEPT !.buffer = r.buffer] ELSE in[i]]
  /\ UNCHANGED store
-----------------------------------------------------------------------------
Init ==
  /\ source = NoSource
  /\ in = [i \in Streams |-> NoStream]

ifstream_construct ==
  /\ ~source.open
  /\ source' = [kind |-> "file", pos |-> 0, open |-> TRUE]
  /\ ret' = << "reads" >>
  /\ UNCHANGED << store, in, faults >>

imstream_construct ==
  /\ ~source.open
  /\ source' = [kind |-> "memory", pos |-> 0, open |-> TRUE]
  /\ ret' = << "reads" >>
  /\ UNCHANGED << store, in, faults >>

\* imstream::reset starts over; an ibstream above it would not notice.
reset ==
  /\ source.open /\ source.kind = "memory" /\ live = {}
  /\ source' = [source EXCEPT !.pos = 0]
  /\ ret' = << "reads" >>
  /\ UNCHANGED << store, in, faults >>

ibstream_construct(i, size) ==
  /\ source.open /\ live = {}
  /\ in' = [in EXCEPT ![i] = [buffer |-> << >>, capacity |-> size, open |-> TRUE]]
  /\ ret' = << "done" >>
  /\ UNCHANGED << store, source, faults >>

\* The move constructor, and the move assignment to an object without a stream.
ibstream_move(i, j) ==
  /\ i # j /\ j \in live
  /\ in' = [in EXCEPT ![i] = in[j], ![j] = NoStream]
  /\ ret' = << "done" >>
  /\ UNCHANGED << store, source, faults >>

read(shape) ==
  /\ source.open
  /\ \E r \in ReadRecord(Reader, shape) :
       /\ Become(r)
       /\ ret' = IF r.how = "ok" THEN << "read", [shape EXCEPT !.of = r.value] >> ELSE << r.how >>

skip(n) ==
  /\ source.open
  /\ \E r \in SkipBytes(Reader, n) :
       /\ Become(r)
       /\ ret' = IF r.how = "throws" THEN << "throws" >> ELSE << "skipped", Len(r.value) >>

\* close of the idstream goes all the way down.
close ==
  /\ source.open
  /\ source' = NoSource
  /\ in' = [i \in Streams |-> NoStream]
  /\ ret' = << "done" >>
  /\ UNCHANGED << store, faults >>
=============================================================================
