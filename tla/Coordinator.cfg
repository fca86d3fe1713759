CONSTANTS
  Name = {"a", "b"}
  Invalid = {"b"}
  MaxNames = 1
  Client = {c1, c2}
  None = None
  MaxPuts = 2
  MaxReports = 1
SPECIFICATION FairSpec
INVARIANTS
  NoLostPut
  SettledAgrees
  ReceiverHasCollector
  TableIsFed
  NothingLeft
PROPERTIES
  ServesLastList
  ShutdownEnds
