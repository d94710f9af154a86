SPECIFICATION Spec
CONSTANTS
  d1 = d1  u1 = u1  a1 = a1  a2 = a2  p1 = p1  p2 = p2
  None = None
  Devices = {d1}
  Users = {u1}
  Owner <- OwnerOne
  Addr = {a1, a2}
  Reports <- ReportsOne
  Arrivals = {"checkin", "delete", "update_user"}
  Procs = {p1, p2}
  W = 6
  RetainFor = 1
  RetainMax = 0
  StampLag = 1
  MaxInFlight = 2
  Clock = {1, 3, 7}
  MaxId = 2
  MaxSeq = 2
  Faults = TRUE
  Crashes = TRUE
SYMMETRY Symmetry
VIEW EventsView
CHECK_DEADLOCK FALSE
INVARIANTS EventIdsUnique ChangesAccounted
PROPERTY WarnedOnce
