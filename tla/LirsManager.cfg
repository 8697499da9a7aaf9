\* Two threads and six blocks in a bin of four, two of them LIR.
CHECK_DEADLOCK FALSE
CONSTANTS
  k1 = k1
  k2 = k2
  k3 = k3
  k4 = k4
  k5 = k5
  k6 = k6
  v = v
  t1 = t1
  t2 = t2
  NULL = NULL
  Keys = {k1, k2, k3, k4, k5, k6}
  Values = {v}
  SizeOf <- Sizes
  Capacities = {4}
  MinHir = 2
  MaxSize = 4
  Word = 16
  Threads = {t1, t2}
SYMMETRY Symmetry
SPECIFICATION ManagerSpec
INVARIANTS OneOwner FreedUnused
