CONSTANTS
  N = 2
  Receiver = {}
  Limit = 1
  CarryOver = 1
  MaxEvents = 2
  Carry = 1
  MaxAge = 2
  Skew = 0
  MaxClock = 3
  MaxUpdates = 3
SPECIFICATION Spec
INVARIANTS
  TypeOK
  NoLostWakeup
  QueuedIsVisible
  ConnectionViewCatchesUp
PROPERTIES
  ImplementsEventStream
  OldIsFlushed
