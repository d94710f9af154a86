SPECIFICATION Spec
CONSTANTS
  d1 = d1  u1 = u1  a1 = a1  a2 = a2  p1 = p1  p2 = p2
  None = None
  Devices = {d1}
  Users = {u1}
  Owner <- OwnerOne
  Addr = {a1, a2}
  Reports <- ReportsMove
  Arrivals = {"checkin", "delete"}
  Procs = {p1, p2}
  W = 3
  RetainFor = 1
  RetainMax = 0
  StampLag = 1
  MaxInFlight = 3
  Clock = {1, 4, 5, 6}
  MaxId = 2
  MaxSeq = 1000
  Faults = FALSE
  Crashes = FALSE
SYMMETRY SymmetryProcs
VIEW TablesView
CHECK_DEADLOCK FALSE
INVARIANTS HistoryAgrees HistoryWithinLag
PROPERTY SweepClearsOnlyStale
