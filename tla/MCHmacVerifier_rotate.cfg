SPECIFICATION Spec
CONSTANTS
  Devices = {"d1"}
  Nonces = {"n1"}
  Sent <- SentAll
  Procs = {"p1", "p2"}
  Skew = 1
  NonceTTL = 1
  MaxLag = 1
  MaxVersion = 2
  MaxTime = 4
PROPERTY StaleSecretStops
