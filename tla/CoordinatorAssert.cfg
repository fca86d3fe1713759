CONSTANTS
  Name = {"a"}
  Invalid = {}
  MaxNames = 1
  Client = {c1}
  None = None
  MaxPuts = 1
  MaxReports = 0
SPECIFICATION Spec
INVARIANT SizesAgree
