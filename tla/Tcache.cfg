\* Two threads' caches, an address of 48 bytes twice and one of 8; the requests are
\* for blocks of 8, 48, 1792 and, which no run holds, 8192 bytes.  The second
\* cache created after the first shutdown finds no index.
CHECK_DEADLOCK FALSE
CONSTANTS
  t1 = t1
  t2 = t2
  b1 = b1
  b2 = b2
  b3 = b3
  NULL = NULL
  Threads = {t1, t2}
  Blocks = {b1, b2, b3}
  BlockClass <- MCClass
  Offset <- MCOffset
  Sizes = {8, 40, 1700, 5000}
  RunSize = 4096
  SmallCapacity = 2
  MediumCapacity = 1
  MAX_THREADS = 3
  MaxCaches = 3
  PageSizes = {4096, 16384}
  LargeSizes = {1052672, 2097152, 5000000}
  SmallSizes = {10, 50, 100, 500, 5000}
SYMMETRY Symmetry
SPECIFICATION Spec
INVARIANTS OnePlace BinsBounded Fits CachesRegistered TightestFit
