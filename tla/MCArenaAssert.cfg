CONSTANTS
  m_free_size = 304
  m_alignas = 16
  Requests <- PlainRequests
SPECIFICATION Spec
INVARIANT NoAssertFails
CHECK_DEADLOCK FALSE
