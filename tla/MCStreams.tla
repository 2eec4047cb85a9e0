----------------------------- MODULE MCStreams -----------------------------
(***************************************************************************)
(* One client writes records to a file or to memory and reads them back    *)
(* through its own choice of streams.  It reads a file when the file is    *)
(* closed and memory when everything is flushed, and it stops reading when *)
(* a failed call has cost it its place.                                    *)
(***************************************************************************)
EXTENDS DataFormat, FiniteSets, TLC

CONSTANTS
  Streams, Capacities, MemorySizes, INIT_BUF_SIZE, MaxFaults,
  Records,      \* what the client writes
  MaxRecords    \* bound

VARIABLES
  store, out,   \* the writing side
  source, in,   \* the reading side
  faults, ret,
  client        \* what the client knows: see Observe

O == INSTANCE OutputStreams
I == INSTANCE InputStreams
ASSUME O!OutputAssumption

\* The records written since the store was made; how many of them a close
\* without an error has confirmed; whether every call on the store went well,
\* and whether every close did; the records read, and whether the reader
\* still knows its place.
Fresh == [sent |-> << >>, safe |-> 0, sound |-> TRUE, kept |-> TRUE, taken |-> 0, placed |-> TRUE]
Observe ==
  client' =
    CASE ret'[1] = "opened" -> IF ret'[2] THEN client ELSE Fresh
      [] ret'[1] = "written" -> [client EXCEPT !.sent = Append(@, ret'[2])]
      [] ret'[1] = "throws" /\ ~source.open -> [client EXCEPT !.sound = FALSE]
      [] ret'[1] = "closed" -> IF store.kind = "memory" THEN Fresh
                               ELSE IF client.sound THEN [client EXCEPT !.safe = Len(client.sent)]
                               ELSE client
      [] ret'[1] = "error" -> [client EXCEPT !.sound = FALSE, !.kept = FALSE]
      [] ret'[1] = "reads" -> [client EXCEPT !.taken = 0, !.placed = TRUE]
      [] ret'[1] \in {"read", "skipped"} /\ client.taken < Len(client.sent) ->
           [client EXCEPT !.taken = @ + 1]
      [] ret'[1] = "eof" -> [client EXCEPT !.placed = FALSE]
      [] ret'[1] = "throws" /\ source.open -> [client EXCEPT !.placed = FALSE]
      [] OTHER -> client

\* The next record is known, or known to be missing.
Certain == client.placed /\ (client.sound \/ client.taken < client.safe)
Upcoming == IF client.taken < Len(client.sent) THEN {client.sent[client.taken + 1]} ELSE Records

Init == O!Init /\ I!Init /\ client = Fresh
Writes ==
  /\ ~source.open
  /\ O!Next(IF Len(client.sent) < MaxRecords THEN Records ELSE {})
  /\ UNCHANGED << source, in >>
Reads ==
  /\ \/ ~store.open /\ store.kind = "file" /\ I!ifstream_construct
     \/ store.open /\ store.kind = "memory" /\ store.allocated /\ O!Buffer = << >> /\ I!imstream_construct
     \/ I!reset
     \/ \E i \in Streams, size \in Capacities : I!ibstream_construct(i, size)
     \/ \E i, j \in Streams : I!ibstream_move(i, j)
     \/ Certain /\ \E r \in Upcoming : I!read(r) \/ I!skip(Len(Encode(r)))
     \/ I!close
  /\ UNCHANGED out
Next == (Writes \/ Reads) /\ Observe
Spec == Init /\ [][Next]_<< store, out, source, in, faults, ret, client >>
-----------------------------------------------------------------------------
Some == {Value(2), Array(<< 1, 2 >>), Text(<< 1 >>), Wide(<< 3 >>)}
Symmetry == Permutations(Streams)

Subsequence(s, t) ==
  Len(s) = FoldLeft(LAMBDA k, b : IF k < Len(s) /\ s[k + 1] = b THEN k + 1 ELSE k, 0, t)

\* A record that was written without a failure reads back whole, in its place
\* and once, through any buffers (obstream.cpp:87-122, ibstream.cpp:76-107);
\* the end of the stream comes after the last one and not earlier; a call
\* throws only when one below it has failed.
ReadsAreExact ==
  [][/\ ret'[1] \in {"read", "skipped"} /\ client.taken < Len(client.sent) =>
          LET r == client.sent[client.taken + 1]
          IN ret' \in {<< "read", r >>, << "skipped", Len(Encode(r)) >>}
     /\ client.taken = Len(client.sent) => ret'[1] # "read"
     /\ ret'[1] = "eof" => client.taken = Len(client.sent) \/ faults' > faults
     /\ ret'[1] = "throws" => faults' > faults \/ store.fixed
    ]_<< store, out, source, in, faults, ret, client >>

\* The store and the buffer in front of it hold the records in order.  Writes
\* that failed may leave pieces between them, but no byte of a record that
\* was accepted is missing, until a close reports an error (obstream.cpp:113-144).
NothingSkipped ==
  /\ client.kept => Subsequence(EncodeAll(client.sent), store.data \o O!Buffer)
  /\ client.sound => EncodeAll(client.sent) = store.data \o O!Buffer
=============================================================================
