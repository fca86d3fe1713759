\* Keys are scaled down: 4 "nanoseconds" a second, 16 values in the lower half
\* of a key (2^32 / 10^9 = 4.29, 16 / 4 = 4), a time-out of 2.5 seconds.  The
\* frames have the numbers of the source; bodies and whole
\* sizes just below, at and above the ends of frames.
CONSTANTS
  NsPerSec = 4
  NsecBase = 16
  SecBase = 16
  MaxSec = 7
  AgeSec = 2
  AgeNsec = 2
  FirstBody = 1402
  FirstHeader = 98
  NextBody = 1434
  NextHeader = 66
  LeastMeta = 12
  MostMeta = 16
  Types <- DbrTypes
  Counts = {0, 175, 176, 1387, 1402, 1403, 2837}
  MaxUpdates = 2
SPECIFICATION NumbersSpec
INVARIANTS
  NeverLate
  EarlyByLessThanFraction
  EarlierAlsoTooOld
  KeyOrderIsTimeOrder
  EstimateIsClose
\* The clock stops at its bound.
CHECK_DEADLOCK FALSE
