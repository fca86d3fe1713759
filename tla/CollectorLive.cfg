CONSTANTS
  Receiver = {r1}
  N = 2
  Limit = 1
  CarryOver = 1
  MaxEvents = 2
  Carry = 1
  MaxAge = 1
  Skew = 0
  MaxClock = 1
  MaxUpdates = 2
SPECIFICATION FairSpec
INVARIANT ShadowIsCurrent
PROPERTIES
  QueuesDrain
  CloseReturns
