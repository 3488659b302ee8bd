CONSTANTS
  N = 4
  PCI_ECAM_BASE = 248
  PCI_ECAM_SIZE = 8
  MMIO_BASE = 244
  MMIO_SIZE = 4
  USER_CODE = 4
  USER_STACK = 8
  BootTables <- MCBootTables
  BootPml4 <- MCBootPml4
  Devices <- MCDevices
  PageCounts = {1, 6, 12, 13, 16}
  MmioCalls = 5
  Others = 15
  Fan = 2
  VirtPages = 8
  Shifts <- MCShifts
  MaxRanges = 2
  WFan = 2
  WLevels = 3
  SAVED_PTES_MAX = 3
  Displays <- MCDisplays
  MaxInits = 2
SPECIFICATION TablesSpec
INVARIANTS
  AddressSpacesRight
  LoaderPagesRight
  CachingRight
PROPERTIES
  MappingsKept
\* The calls are bounded, and a missing page is a panic.
CHECK_DEADLOCK FALSE
