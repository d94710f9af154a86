SPECIFICATION Spec
CONSTANTS
  d1 = d1  u1 = u1  a1 = a1  a2 = a2  p1 = p1  p2 = p2
  None = None
  Devices = {d1}
  Users = {u1}
  Owner <- OwnerOne
  Addr = {a1}
  Reports <- ReportsSplit
  Arrivals = {"checkin", "admin_set_enabled"}
  Procs = {p1, p2}
  W = 3
  RetainFor = 1
  RetainMax = 0
  StampLag = 0
  MaxInFlight = 2
  Clock = {1, 4, 5}
  MaxId = 2
  MaxSeq = 2
  Faults = FALSE
  Crashes = FALSE
SYMMETRY Symmetry
CHECK_DEADLOCK FALSE
INVARIANT MirrorInSync
