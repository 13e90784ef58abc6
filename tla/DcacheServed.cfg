SPECIFICATION FairSpec
CONSTANTS
  Words <- MCWords
  Bytes = {0, 1}
  DCACHE_WBUF_DEPTH = 1
  DCACHE_MAX_TX = 2
  Workloads <- MCServed
  MaxLoadsBehindAmo = 1
INVARIANTS Bookkeeping
PROPERTIES AmoServed PortFreed
