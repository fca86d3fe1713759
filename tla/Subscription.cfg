CONSTANTS
  MaxStamp = 2
  Costs = {1}
  MinLimit = 1
  ScalarQuota = 2
  ArrayQuota = 0
  FirstLimit = 2
  CarryOver = 1
  MaxCallbacks = 6
SPECIFICATION Spec
INVARIANTS
  TypeOK
  NoUnderflow
  LastIsDisconnect
PROPERTIES
  RefinesQueue
  QueueBounded
