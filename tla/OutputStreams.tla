--------------------------- MODULE OutputStreams ---------------------------
(***************************************************************************)
(* A client writes records through an odstream, which passes every piece   *)
(* to an obstream (or straight on), which gathers bytes in its buffer and  *)
(* writes them to an ofstream or an omstream.  `faults' counts the calls   *)
(* the environment has failed: fwrite, fflush, fclose and the allocator of *)
(* an omstream.                                                            *)
(*                                                                         *)
(* free() of obstream (obstream.cpp:74-80) tests its allocator the wrong   *)
(* way round: it keeps the buffer it allocated, and would hand a buffer of *)
(* the caller's to a null allocator.  The streams here allocate their own. *)
(***************************************************************************)
EXTENDS DataFormat, FiniteSets

CONSTANTS
  Streams,        \* obstream objects
  Capacities,     \* their buffer sizes
  MemorySizes,    \* the sizes an omstream is made with
  INIT_BUF_SIZE,
  MaxFaults       \* bound

VARIABLES
  store,    \* the ofstream or omstream, and the bytes below it
  out,      \* obstream object -> its fields, or NoStream
  faults,
  ret

OutputAssumption ==
  /\ Capacities \subseteq Nat
  /\ MemorySizes \subseteq Nat
  /\ {INIT_BUF_SIZE, MaxFaults} \subseteq Nat

\* An object that was never given a stream, or whose stream was moved or closed.
NoStream == [buffer |-> << >>, capacity |-> 0, open |-> FALSE]

live == {o \in Streams : out[o].open}
Buffer == IF live = {} THEN << >> ELSE out[CHOOSE o \in live : TRUE].buffer

\* What a call works on: w.ok turns FALSE when it throws.
Writer == [store |-> store, buffer |-> Buffer, faults |-> faults, ok |-> TRUE]
-----------------------------------------------------------------------------
Stored(w, bytes) == [w EXCEPT !.store.data = @ \o bytes]
Failing(w) == IF w.faults < MaxFaults THEN {[w EXCEPT !.faults = @ + 1, !.ok = FALSE]} ELSE {}

\* fwrite stores everything, or some first bytes and the stream throws.
ofstream_write(w, bytes) ==
  {Stored(w, bytes)} \cup
  {Stored(v, SubSeq(bytes, 1, k)) : v \in Failing(w), k \in 0 .. Len(bytes) - 1}

\* The capacity that holds n bytes, half as much again at a time.
Enough(start, n) ==
  LET size[i \in Nat] == IF i = 0 THEN start ELSE size[i - 1] + size[i - 1] \div 2
  IN size[CHOOSE i \in 0 .. n : size[i] >= n /\ \A j \in 0 .. i - 1 : size[j] < n]
FirstSize(capacity) == IF capacity = 0 THEN INIT_BUF_SIZE ELSE capacity

resize(s, n) ==
  [s EXCEPT !.capacity = Enough(IF FirstSize(@) <= 1 THEN 2 ELSE FirstSize(@), n + Len(s.data)),
            !.allocated = TRUE]

\* omstream makes room or throws before it copies anything.
omstream_write(w, bytes) ==
  IF w.store.allocated /\ w.store.capacity - Len(w.store.data) >= Len(bytes) THEN {Stored(w, bytes)}
  ELSE IF w.store.fixed THEN {[w EXCEPT !.ok = FALSE]}
  ELSE {Stored([w EXCEPT !.store = resize(@, Len(bytes))], bytes)} \cup Failing(w)

sink_write(w, bytes) ==
  IF w.store.kind = "file" THEN ofstream_write(w, bytes) ELSE omstream_write(w, bytes)
-----------------------------------------------------------------------------
\* obstream::flush keeps the bytes of a write that throws and will write all
\* of them again.  Mutant: the buffer is reset first.
FlushForgets(w) ==
  IF w.buffer = << >> THEN {w} ELSE {[v EXCEPT !.buffer = << >>] : v \in sink_write(w, w.buffer)}
Flush(w) ==
  IF w.buffer = << >> THEN {w}
  ELSE {IF v.ok THEN [v EXCEPT !.buffer = << >>] ELSE v : v \in sink_write(w, w.buffer)}

\* obstream::write: what does not fit into the rest of the buffer flushes it,
\* what does not fit into the whole buffer passes by it.
Write(w, bytes, capacity) ==
  LET room == IF capacity - Len(w.buffer) < Len(bytes) THEN Flush(w) ELSE {w}
  IN {v \in room : ~v.ok} \cup
     UNION {IF Len(bytes) > capacity THEN sink_write(v, bytes)
            ELSE {[v EXCEPT !.buffer = @ \o bytes]} : v \in {v \in room : v.ok}}

\* odstream writes the pieces of a record until one throws.
WritePiece(w, bytes) ==
  IF live = {} THEN sink_write(w, bytes)
  ELSE Write(w, bytes, out[CHOOSE o \in live : TRUE].capacity)
WriteRecord(w, r) ==
  FoldLeft(LAMBDA ws, piece : UNION {IF v.ok THEN WritePiece(v, piece) ELSE {v} : v \in ws},
           {w}, Pieces(r))

\* The objects after a call that left v.
Become(v) ==
  /\ store' = v.store
  /\ faults' = v.faults
  /\ out' = [o \in Streams |-> IF o \in live THEN [out[o] EXCEPT !.buffer = v.buffer] ELSE out[o]]
-----------------------------------------------------------------------------
Closed == [kind |-> "file", data |-> << >>, synced |-> 0, open |-> FALSE,
           capacity |-> 0, allocated |-> FALSE, fixed |-> FALSE]

Init ==
  /\ store = Closed
  /\ out = [o \in Streams |-> NoStream]
  /\ faults = 0
  /\ ret = << "done" >>

ofstream_construct(append) ==
  /\ ~store.open
  /\ store' = [store EXCEPT !.open = TRUE, !.data = IF append THEN @ ELSE << >>,
                           !.synced = IF append THEN Len(store.data) ELSE 0]
  /\ ret' = << "opened", append >>
  /\ UNCHANGED << out, faults >>

\* An omstream allocates with its first write; a buffer of the caller's is
\* there from the start.
omstream_construct(size, fixed) ==
  /\ ~store.open
  /\ store' = [Closed EXCEPT !.kind = "memory", !.open = TRUE, !.capacity = size,
                            !.allocated = fixed, !.fixed = fixed]
  /\ ret' = << "opened", FALSE >>
  /\ UNCHANGED << out, faults >>

obstream_construct(o, size) ==
  /\ store.open /\ live = {}
  /\ out' = [out EXCEPT ![o] = [buffer |-> << >>, capacity |-> size, open |-> TRUE]]
  /\ ret' = << "done" >>
  /\ UNCHANGED << store, faults >>

\* The move constructor, and the move assignment to an object without a
\* stream: its guard, `if (!m_out)', closes nothing.
obstream_move(o, p) ==
  /\ o # p /\ p \in live
  /\ out' = [out EXCEPT ![o] = out[p], ![p] = NoStream]
  /\ ret' = << "done" >>
  /\ UNCHANGED << store, faults >>

write(r) ==
  /\ store.open
  /\ \E v \in WriteRecord(Writer, r) :
       /\ Become(v)
       /\ ret' = IF v.ok THEN << "written", r >> ELSE << "throws" >>

\* An ofstream hands what its FILE holds to the system; an omstream does nothing.
sink_flush(w) ==
  IF w.store.kind = "file" THEN {[w EXCEPT !.store.synced = Len(w.store.data)]} \cup Failing(w) ELSE {w}

\* The flush of an obstream does not go on to the stream below it.
flush ==
  /\ store.open
  /\ \E v \in IF live = {} THEN sink_flush(Writer) ELSE Flush(Writer) :
       /\ Become(v)
       /\ ret' = << IF v.ok THEN "flushed" ELSE "throws" >>

\* fclose, which may fail and lose what was not with the system yet; an
\* omstream only lets go of its buffer.
CloseSink(w) ==
  IF w.store.kind = "memory" THEN {[w EXCEPT !.store = Closed]}
  ELSE LET shut == [w EXCEPT !.store.open = FALSE, !.store.synced = Len(w.store.data)]
       IN {shut} \cup
          {[v EXCEPT !.store.data = SubSeq(@, 1, k), !.store.synced = k] :
             v \in Failing(shut), k \in w.store.synced .. Len(w.store.data)}

\* A flush that throws does not keep the stream below from being closed, and
\* its error is the one reported.
Close(w) == UNION {CloseSink([v EXCEPT !.buffer = << >>]) : v \in Flush(w)}

\* close of the odstream goes all the way down.
close ==
  /\ store.open
  /\ \E v \in Close(Writer) :
       /\ store' = v.store
       /\ faults' = v.faults
       /\ out' = [o \in Streams |-> NoStream]
       /\ ret' = << IF v.ok THEN "closed" ELSE "error" >>

Next(records) ==
  \/ \E append \in BOOLEAN : ofstream_construct(append)
  \/ \E size \in MemorySizes, fixed \in BOOLEAN : omstream_construct(size, fixed)
  \/ \E o \in Streams, size \in Capacities : obstream_construct(o, size)
  \/ \E o, p \in Streams : obstream_move(o, p)
  \/ \E r \in records : write(r)
  \/ flush
  \/ close
=============================================================================
