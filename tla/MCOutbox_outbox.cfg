SPECIFICATION FairSpec
CONSTANTS
  Endpoints = {"e1"}
  MaxAttempts = 2
  BatchSize = 2
  Retain = 10
  Jitter = {100}
  Responses = {"delivered", "gone", "unreachable"}
  Clock = {1, 15}
  MaxRows = 3
  MaxEvents = 1
  MaxMishaps = 1
CHECK_DEADLOCK FALSE
INVARIANTS TypeOK BatchCurrent DeliveredReceived
PROPERTIES RowsKept DeliveriesSettle
