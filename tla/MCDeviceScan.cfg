\* Each device file, over the devices of MCDeviceScan, from start to end.
SPECIFICATION FairSpec
CONSTANTS
  Devices <- MCDevices
  MaxStatements = 1300
INVARIANTS
  TypeOK
  DescribedToTheEnd
  LeavesClean
  CapabilitiesNamed
  BarsArePartitioned
PROPERTIES
  Terminates
