CONSTANTS
  Lists = {l1, l2}
  Allocators = {a1, a2}
  Values = {u, v}
  Initial <- Spelled
  Capacities = {0, 2, 3}
  DEFAULT_CAPACITY = 2
  AddToFullOfOne = FALSE
  Middles = TRUE
  MaxSize = 3
  MaxQuota = 4
SPECIFICATION SpecBoth
INVARIANT SizeIsLength
