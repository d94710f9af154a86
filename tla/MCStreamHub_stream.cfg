SPECIFICATION FairSpec
CONSTANTS
  Conns = {"c1", "c2"}
  Tokens = {"t1"}
  MaxStreams = 1
  Buffer = 1
  MaxEvents = 3
  MaxFaults = 1
CHECK_DEADLOCK FALSE
INVARIANTS TypeOK RevokedStops InSync
PROPERTIES ImplementsPromise CancelledEnds ShutdownDrains
