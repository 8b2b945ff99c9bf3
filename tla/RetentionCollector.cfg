\* One run of the command: is the object still unreferenced when it is deleted?
SPECIFICATION Spec
CONSTANTS
  shared = shared
  N = 2
  Ev <- MCEv
  Key = {shared}
  Failed = {}
  Deliveries = {1}
  Engine = {g1}
  EventClasses <- MCEventClasses
  EventPolicies <- MCEventPolicies
  DefaultEventTTL = 0
  PayloadClasses <- MCPayloadClasses
  PayloadPolicies <- MCPayloadPolicies
  DefaultPayloadTTL = 0
  EventBatchSize = 2
  MaxEvents = 2
  PayloadBatchSize = 1
  MaxPayloads = 1
  PayloadConcurrency = 1
  Grace = 1
  RetryDelay = 1
  RestoreLimit = 1
  MaxTime = 1
PROPERTIES
  DeletedUnreferenced
