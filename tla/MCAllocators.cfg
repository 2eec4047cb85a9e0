CONSTANTS
  m_free_size = 304
  m_alignas = 16
  ArenaRequests <- PlainRequests
  Buffer = 64
  capacity = 272
  Requests <- MixedRequests
  Pools = {p1, p2}
  Params <- TwoParams
  PoolRequests <- TwoRequests
  Threads = {t1, t2, t3}
  Wrappers = {w1, w2}
  PageBuckets = 3
  NoThread = NoThread
SPECIFICATION Behaviour
INVARIANTS HeadersChain LinkedOrOwned BucketsOnce PoolClientsApart HandedOutOnce NoneLost
PROPERTIES ImplementsContract LocksAreReleased
CHECK_DEADLOCK FALSE
