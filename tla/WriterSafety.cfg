\* Two writers one after the other, one under Drop and one under Block in any order.
SPECIFICATION Spec
CONSTANTS
  Producers = {p1, p2}
  Callers = {c1, c2}
  Writers = {w1, w2}
  None = None
  MaxLogs = 2
  DefaultCapacity = 1
  DefaultBatch = 2
  Configs <- MCMixed
SYMMETRY MCSymmetry
INVARIANTS
  TypeOK
  NothingStranded
  SinkOrder
  OneLiveWriter
  BufferedGauge
  EveryLogCountedOnce
  NilMeansWritten
