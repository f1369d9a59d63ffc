\* Four calls on two slots and a KV budget
SPECIFICATION Spec
CONSTANTS
  NumCalls = 4
  IdOf <- QueueId
  Tokens <- QueueTokens
  Priority <- QueuePriority
  Limit = 2
  Budget = 4
INVARIANTS
  WithinCapacity
  NoOrphanLease
PROPERTIES
  SleepersWoken
