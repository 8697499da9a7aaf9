\* Two blocks of class 0 to a run, one of class 1, none of class 2.
CHECK_DEADLOCK FALSE
CONSTANTS
  t1 = t1
  t2 = t2
  Threads = {t1, t2}
  BlockSizes <- Sizes
  RunSize = 2
  ChunkSize = 16
  UsableOffset = 2
  MaxChunks = 3
  Requests = {1, 2, 8, 9}
  MaxInUse = 3
  MaxRuns = 2
SYMMETRY Symmetry
SPECIFICATION Spec
INVARIANTS OneChunkEach RunsCounted BitsCoverHolders OneHolderUntilFull
