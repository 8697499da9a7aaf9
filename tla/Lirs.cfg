\* Two LIR and two HIR blocks, or one LIR, among five keys.
CHECK_DEADLOCK FALSE
CONSTANTS
  k1 = k1
  k2 = k2
  k3 = k3
  k4 = k4
  k5 = k5
  v1 = v1
  v2 = v2
  Keys = {k1, k2, k3, k4, k5}
  Values = {v1, v2}
  SizeOf <- Sizes
  Capacities = {3, 4}
  MinHir = 2
  MaxSize = 6
  Word = 16
SYMMETRY Symmetry
SPECIFICATION Spec
INVARIANTS EveryBlockListed CountersAreResident
PROPERTY LirSurvives
