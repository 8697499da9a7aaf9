\* The leak detector does everything it may: tracking stops and starts, records are
\* cleared, the limit is met, malloc fails, and it is shut down while calls are in
\* progress; a search that finds nothing ends the process.  The statistics have two
\* threads, two allocations, a history of two entries and one reset.
CHECK_DEADLOCK FALSE
CONSTANTS
  NULL = NULL
  Threads = {m, t}
  Main = m
  Pointers = {p1, p2, p3}
  Sizes = {1, 2}
  MaxRecords = 2
  ReportSize = 2
  CounterWord = 3
  Allowed = {"disable", "clear", "shutdown", "early", "fail"}
  Clients = {c1, c2}
  Capacity = 2
  MaxAllocs = 2
  MaxResets = 1
SYMMETRY Symmetry
SPECIFICATION EitherSpec
INVARIANTS RecordsCounted RecordsAreHeld RecordedIsFound ReportComplete HistoryBounded HistoryInOrder
