\* A scalar of a type for which there is no copier, delivered twice.
CONSTANTS
  N = 2
  Type = {"double", "int", "short"}
  Double = "double"
  Scalar = {"double", "int"}
  Cells <- MCCells
  MaxEvents = 2
  MaxRows = 1
SPECIFICATION Spec
INVARIANT CopierFits
CHECK_DEADLOCK FALSE
