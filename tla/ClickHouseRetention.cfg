\* One command at a time, with crashes, redelivery and concurrent ingestion.
SPECIFICATION Spec
CONSTANTS
  N = 2
  Flow <- MCFlow
  Execution <- MCExecution
  Terminal = {1}
  Expired = {1, 2}
  EventBatchSize = 1
  TaskLimit = 1
  MaxCopies = 2
  MaxCrashes = 2
INVARIANTS
  TypeOK
  StaleIsStaged
PROPERTIES
  VaultSpec
  Converges
