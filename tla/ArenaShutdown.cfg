\* The same instance, with the walk of arena_destroy over what was made.
CHECK_DEADLOCK FALSE
CONSTANTS
  t1 = t1
  t2 = t2
  Threads = {t1, t2}
  BlockSizes <- Sizes
  RunSize = 2
  ChunkSize = 16
  UsableOffset = 2
  MaxChunks = 3
  Requests = {1, 2, 8, 9}
  MaxInUse = 3
  MaxRuns = 2
SPECIFICATION Spec
INVARIANT AllChunksDestroyed
