\* The collector has two threads and two regions, and all its calls.  The large
\* pages have two bytes to a page and are of 2 and 4 ordinary ones, in an address
\* space of 8; two blocks are held at a time, of sizes from less than a page, from
\* 2 MB to just below 1 GB, with and without a whole last page.
CHECK_DEADLOCK FALSE
CONSTANTS
  NULL = NULL
  Threads = {t1, t2}
  Region = {r1, r2}
  YoungAge = 1
  SurvivorAge = 1
  AgeCap = 2
  Ops = {"gc_shutdown", "gc_enable", "gc_disable", "gc_collect", "gc_collect_young",
         "gc_collect_full", "gc_check_threshold", "gc_collect_async", "gc_collect_wait",
         "gc_region_promote", "gc_region_age"}
  AllocTypes = {"GC_REGION_YOUNG", "GC_REGION_PINNED"}
  Page = 2
  TwoMB = 4
  OneGB = 8
  Space = 16
  Sizes = {1, 5, 6, 7}
  MaxHeld = 2
  Callers = {c1, c2}
  NoCaller = NoCaller
  MaxReserved = 1
SYMMETRY Symmetry
CONSTRAINT Sound
SPECIFICATION EitherSpec
INVARIANTS RegionsFiled OneCollector MappedIsHeld FreeUndoesAlloc ReservedCovered
