CONSTANTS
  Maps = {m1, m2}
  Allocators = {a1, a2}
  LinkedAllocators = {b}
  DefaultAllocator = d
  Keys = {1, 3, 5}
  Values = {"u", "v"}
  Pairs <- SomePairs
  LinkedPairs <- OnePairPerKey
  Hash <- OwnHash
  HashAfterMove <- OwnHash
  MinCapacity = 2
  Capacities = {0, 1}
  LinkedCapacities = {0}
  AccessOrders = {TRUE}
  LoadFactors <- ThreeQuarters
  MaxEntries = 2
  MaxQuota = 5
SPECIFICATION Spec
SYMMETRY Symmetry
INVARIANTS EntriesPaidBack IterationMeetsAll
PROPERTY ImplementsMaps
