\* One worker, a queue of one job.
SPECIFICATION Spec
CONSTANTS
  r1 = r1
  r2 = r2
  Event = {r1, r2}
  BatchSize = 2
  Size <- MCSize
  Unscoped = {r2}
  PayloadLimit = 1
  Redacted = {0, 2}
  QueueCapacity = 1
  Closer = {c1}
  MaxFinish = 2
INVARIANTS
  TypeOK
  OneEvent
  ReferenceStored
  FlushedOnClose
  WrittenIsStored
PROPERTIES
  OrderlyClose
  JournalSpec
  Settles
  CloseReturns
CHECK_DEADLOCK FALSE
