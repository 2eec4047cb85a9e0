SPECIFICATION Spec
CONSTANTS
  PageSize = 112
  Requests <- SmallRequests
  ParentAddrs = {64, 264}
  FALLBACK_MOD = 65536
  MEMSIZE_MOD = 65536
INVARIANTS
  Tiling
  TreeIsFree
  FallbackFindsHeader
  RegionsDisjoint
  ParentBalance
  NullMeansExhausted
  CompactIsTheScan
PROPERTY ImplementsContract
CHECK_DEADLOCK FALSE
