------------------------------- MODULE MCText -------------------------------
(***************************************************************************)
(* The kinds of text of the library, one at a time: tstring against its    *)
(* contract, texts typed point by point through their encodings, and       *)
(* addresses typed word by word through the parser and the printer.        *)
(***************************************************************************)
EXTENDS Strings, Unicode, TLC

CONSTANTS
  Points, Octets, Groups, Words, Numbers,
  MaxPoints, MaxWords   \* bounds

VARIABLES
  typed,   \* [as, items]: what has been typed so far
  held     \* auxiliary: what each live string holds, for the refinement

A == INSTANCE Addresses

Held == [i \in live |-> Text(strings[i])]
Kinds == {"strings", "points", "octets", "groups", "words"}
Begin == Init /\ held = Held /\ typed \in [as : Kinds, items : {<< >>}]

Type(as, max, symbols) ==
  /\ typed.as = as /\ Len(typed.items) < max
  /\ \E x \in symbols : typed' = [typed EXCEPT !.items = Append(@, x)]
\* A number ends where another kind of word begins.
Typeable == IF typed.items # << >> /\ A!IsNumber(Last(typed.items)) THEN Words \ DOMAIN Numbers ELSE Words

Step ==
  \/ typed.as = "strings" /\ Next /\ held' = Held' /\ UNCHANGED typed
  \/ /\ UNCHANGED << vars, held >>
     /\ \/ Type("points", MaxPoints, Points)
        \/ Type("octets", 4, Octets)
        \/ Type("groups", 8, Groups)
        \/ Type("words", MaxWords, Typeable)
Behaviour == Begin /\ [][Step]_<< vars, typed, held >>
-----------------------------------------------------------------------------
Spelled == {<< >>, << 2 >>, << 1, 2 >>, << 2, 2 >>}
\* Both ends of the ranges of either encoding, but the last point of each range
\* of UTF-8, which the code does not encode.
Boundaries == {65, 126, 128, 2046, 2048, 55295, 57344, 65534, 65536, 66559, 1114110}
Radix == [w \in {"0", "1", "10", "010", "255", "256", "ff"} |->
            CASE w = "0"   -> [dec |-> 0, hex |-> 0, plain |-> TRUE]
              [] w = "1"   -> [dec |-> 1, hex |-> 1, plain |-> TRUE]
              [] w = "10"  -> [dec |-> 10, hex |-> 16, plain |-> TRUE]
              [] w = "010" -> [dec |-> 10, hex |-> 16, plain |-> FALSE]
              [] w = "255" -> [dec |-> 255, hex |-> 597, plain |-> TRUE]
              [] w = "256" -> [dec |-> 256, hex |-> 598, plain |-> TRUE]
              [] OTHER     -> [dec |-> -1, hex |-> 255, plain |-> TRUE]]
Written == {"0", "010", "256", "ff", ".", ":"}
Symmetry == Permutations(Strings) \cup Permutations(Allocators)

\* Every change of a string leaves a terminator behind its last character,
\* inside its buffer, wherever the string moved to and whichever allocation
\* failed; each allocator is owed the buffers of the live long strings
\* (string.cpp:25-186).
StringsSound ==
  /\ \A i \in live : Whole(strings[i])
  /\ \A a \in Allocators : blocks[a] = Owed(a)

\* Strings do what string.hpp promises of a text: an edit has its whole effect
\* and no other, or throws and has none; lookups answer what the text says.
Contract == INSTANCE TextContract WITH contents <- held
ImplementsText == Contract!Spec

\* A text survives its encodings and the conversions between them, in either
\* byte order, and a bounded buffer holds as many whole characters of it as it
\* can with a terminator (coder.hpp:357-450).
EncodingsRoundTrip == typed.as = "points" => RoundTrip(typed.items)

\* What is printed of an address is read back as that address, so is each
\* shorter spelling of an IPv6 address, and a text with dots is taken for an
\* IPv4 address only if it is what is printed of that address, but for zeroes
\* in front of its numbers: they are read in base ten whatever they start with
\* (ip_parser.cpp:83, 94-165, inetaddr.cpp:152-288).
AddressesParse ==
  LET items == typed.items
  IN CASE typed.as = "octets" /\ Len(items) = 4 -> A!inet_address(A!print_v4(items)) = items
       [] typed.as = "groups" /\ Len(items) = 8 ->
            \A s \in A!Spellings(items) : A!inet_address(s) = items
       [] typed.as = "words" ->
            LET read == A!inet_address(items)
            IN Contains(items, ".") /\ read # A!Rejected => A!print_v4(read) = A!Plain(items)
       [] OTHER -> TRUE
=============================================================================
