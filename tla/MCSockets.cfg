CONSTANTS
  Sockets = {k1, k2, k3}
  MaxDescriptors = 3
  Backlog = 1
  Window = 2
  Capacity = 2
  MaxBytes = 3
SPECIFICATION Spec
SYMMETRY Symmetry
INVARIANTS FlagsMatch InOrder
CHECK_DEADLOCK FALSE
