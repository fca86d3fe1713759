CONSTANTS
  n1 = n1
  n2 = n2
  Table = {t1, t2}
  Worker = {w1}
  Thread <- MCThread
  Foreign = {"other"}
  Name = {n1, n2}
  File <- MCFile
  Other <- MCOther
  MaxPuts = 1
  MaxSets = 1
SPECIFICATION Spec
INVARIANTS
  ContextRestored
  ExitInOrder
  FileIsTakenWhole
