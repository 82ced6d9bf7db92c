SPECIFICATION Spec
CONSTANTS
  Byte = {0, 1}
  Ones = 1
  Absent = Absent
  PortSpace = 3
  ConfigSpace = 4
  ConfigFile <- MCConfigFile
  MsrTop = 3
  MemTop = 16
  Page = 4
  Memory <- MCMemory
  MemRegion <- MCMemRegion
  Width = {1, 2}
  MaxWidth = 2
  Offset <- MCOffset
  Volatile = {0}
PROPERTY
  RefusesOnlyInvalid
