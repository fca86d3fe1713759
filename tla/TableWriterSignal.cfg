CONSTANTS
  Name = {n1, n2}
  NoFile = NoFile
  MaxRows = 2
  MaxFaults = 1
SPECIFICATION FairSpec
PROPERTY SwitchesOnSignal
