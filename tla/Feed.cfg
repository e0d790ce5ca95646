SPECIFICATION Spec
CONSTANTS
  Key = {"span", "session"}
  BusCap = 1
  WireCap = 1
  EnvelopeCap = 1
  StatusCap = 1
  RingMax = 1
  FailLimit = 2
  MaxEvents = 2
  MaxBreaks = 1
  MaxOutages = 1
INVARIANTS
  ArrivesWhole
  OneConnection
PROPERTIES
  KeepsFlowing
CHECK_DEADLOCK FALSE
