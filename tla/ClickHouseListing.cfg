\* Does a listing show each event once?
SPECIFICATION Spec
CONSTANTS
  N = 2
  Flow <- MCFlow
  Execution <- MCExecution
  Terminal = {1}
  Expired = {1, 2}
  EventBatchSize = 1
  TaskLimit = 1
  MaxCopies = 2
  MaxCrashes = 2
INVARIANTS
  ListedOnce
