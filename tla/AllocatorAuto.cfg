\* Initialized by whoever allocates first, shut down at any moment.
CHECK_DEADLOCK FALSE
SPECIFICATION Spec
CONSTANTS
  t1 = t1
  t2 = t2
  b1 = b1
  b2 = b2
  NULL = NULL
  Threads = {t1, t2}
  Main = t1
  Blocks = {b1, b2}
  Base <- MCBase
  Sizes = {1}
  ReallocSizes = {1, 2}
  Counts = {1}
  Aligns = {8}
  HeaderSize = 4
  HeaderAlign = 2
  Word = 16
  CounterWord = 1
  Ops = {"shutdown", "calloc", "realloc", "aligned", "free"}
  Orderly = FALSE
INVARIANTS NoLeak InBounds ContentsKept ReturnsAligned
