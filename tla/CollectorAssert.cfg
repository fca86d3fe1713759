CONSTANTS
  Receiver = {}
  N = 2
  Limit = 2
  CarryOver = 1
  MaxEvents = 2
  Carry = 1
  MaxAge = 2
  Skew = 0
  MaxClock = 3
  MaxUpdates = 4
SPECIFICATION Spec
INVARIANT NoAbort
