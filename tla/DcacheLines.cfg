SPECIFICATION Spec
CONSTANTS
  Words <- MCWords
  Bytes = {0}
  DCACHE_WBUF_DEPTH = 2
  DCACHE_MAX_TX = 2
  Workloads <- MCCoherent
  MaxLoadsBehindAmo = 1
INVARIANTS LoadFresh Coherent NoReadWriteOverlap AmoOrdered
