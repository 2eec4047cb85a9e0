CONSTANTS
  Streams = {s1, s2}
  Capacities = {1, 3}
  MemorySizes = {0, 3}
  INIT_BUF_SIZE = 2
  MaxFaults = 1
  Base = 2
  Width = 2
  Records <- Some
  MaxRecords = 3
SPECIFICATION Spec
SYMMETRY Symmetry
INVARIANT NothingSkipped
PROPERTY ReadsAreExact
