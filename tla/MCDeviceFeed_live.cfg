SPECIFICATION FairSpec
CONSTANTS
  d1 = d1  u1 = u1  a1 = a1  a2 = a2  p1 = p1  p2 = p2
  None = None
  Devices = {d1}
  Users = {u1}
  Owner <- OwnerOne
  Addr = {a1}
  Reports <- ReportsSplit
  Arrivals = {"checkin", "set_enabled", "admin_set_enabled", "delete_user"}
  Procs = {p1}
  W = 7
  RetainFor = 1
  RetainMax = 0
  StampLag = 1
  MaxInFlight = 2
  Clock = {1, 3, 7, 8}
  MaxId = 2
  MaxSeq = 2
  Faults = FALSE
  Crashes = FALSE
CHECK_DEADLOCK FALSE
INVARIANT TypeOK
PROPERTIES RequestsEnd StaleAddressLeaves RemovalsReported
