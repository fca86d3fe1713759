\* Three events in batches of one or two.
CONSTANTS
  N = 2
  Type = {"double", "int", "short"}
  Double = "double"
  Scalar = {"double", "int"}
  Cells <- MCCells
  MaxEvents = 3
  MaxRows = 2
SPECIFICATION Spec
INVARIANTS
  TypeOK
  RowsAreTrue
  TypedRows
  RunIsConsistent
  WaiterIsWoken
\* Nobody has to deliver events, and the receiver may be closed.
CHECK_DEADLOCK FALSE
