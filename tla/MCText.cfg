CONSTANTS
  Strings = {s1, s2}
  Allocators = {a1, a2}
  Values = {1, 2}
  Space = 1
  Texts <- Spelled
  INLINE_BUFFER_SIZE = 2
  Careful = TRUE
  MaxLength = 3
  Points <- Boundaries
  Octets = {0, 1, 255}
  Groups = {0, 1}
  Words <- Written
  Numbers <- Radix
  MaxPoints = 3
  MaxWords = 8
SPECIFICATION Behaviour
SYMMETRY Symmetry
INVARIANTS StringsSound EncodingsRoundTrip AddressesParse
PROPERTY ImplementsText
CHECK_DEADLOCK FALSE
