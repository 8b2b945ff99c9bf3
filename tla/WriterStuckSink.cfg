\* The sink may hang in any call; one writer, either policy.
SPECIFICATION StuckSinkSpec
CONSTANTS
  Producers = {p1, p2}
  Callers = {c1}
  Writers = {w1}
  None = None
  MaxLogs = 2
  DefaultCapacity = 1
  DefaultBatch = 1
  Configs <- MCMixed
PROPERTIES
  StopReleasesProducers
  DropNeverBlocks
