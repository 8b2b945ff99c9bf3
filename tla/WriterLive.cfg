\* The sink answers every call; one writer that blocks callers on a full queue.
SPECIFICATION FairSpec
CONSTANTS
  Producers = {p1, p2}
  Callers = {c1}
  Writers = {w1, w2}
  None = None
  MaxLogs = 1
  DefaultCapacity = 1
  DefaultBatch = 2
  Configs <- MCBlock
PROPERTIES
  LogReturns
  CloseReturns
  AcceptedIsOffered
  JournalSpec
