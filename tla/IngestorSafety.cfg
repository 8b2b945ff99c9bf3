\* Two engines on one consumer, every fault.
SPECIFICATION Spec
CONSTANTS
  m1 = m1
  m2 = m2
  m3 = m3
  Messages = {m1, m2, m3}
  Engines = {e1, e2}
  None = None
  EventsIn <- MCEventsIn
  BytesIn <- MCBytesIn
  Undecodable <- MCUndecodable
  MaxMessages = 2
  MaxEvents = 3
  MaxBytes = 2
  MaxDeliveries = 2
  MaxDeliver = 2
  MaxAckPending = 4
  Faults = {"store", "dlq", "ack", "slow", "crash"}
SYMMETRY MCSymmetry
INVARIANTS
  TypeOK
  AckedIsSafe
  DeadOnlyWhenDue
  GroupWithinLimits
