\* Initialized and shut down by the main thread; requests that the totals count in
\* full, so nothing is aligned and no realloc shrinks a block.
SPECIFICATION ReaderSpec
CONSTANTS
  t1 = t1
  t2 = t2
  b1 = b1
  b2 = b2
  NULL = NULL
  Threads = {t1, t2}
  Main = t1
  Blocks = {b1, b2}
  Base <- MCBase
  Sizes = {0, 1, 2}
  ReallocSizes = {0, 2}
  Counts = {1}
  Aligns = {}
  HeaderSize = 4
  HeaderAlign = 2
  Word = 16
  CounterWord = 4
  Ops = {"init", "shutdown", "malloc", "calloc", "realloc", "free"}
  Orderly = TRUE
INVARIANTS TypeOK NoBadFree Exclusive LifecycleAgrees ReportedIsHeld
