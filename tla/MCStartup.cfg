CONSTANTS
  Memmaps <- MCMemmaps
  FOUR = 2
  KIB = 3
  LOW_MEMORY = 12
  MAX_PAGES = 5
  TABLE_PAGES = 1
  USER_PAGES = 1
  MMIO_PAGES = 1
  PageSize = 2
  Ebda = 4
  OneMeg = 6
  FourGig = 14
  TopOfRam = 16
  MaxMap = 8
  E820Maps <- MCE820
  EfiMaps <- MCEfi
  ClaimMax = 4
  ClaimMin = 2
  ClaimFallback = 2
  OwnTop = 4
  MaxMemOps = 2
  AddrMod = 64
  HigherHalf = 48
  ElfPage = 4
  RelrBits = 3
  MaxTries = 3
  MaxImage = 10
  ElfFiles <- MCElfFiles
  MbPages = 14
  InfoTarget = 2
  LowMeg = 4
  MaxRetries = 20
  MbMaps <- MCMaps
  Kernels <- MCKernels
  MbModules <- MCMbModules
  TagSize <- MCTags
  Pages = 21
  FourGiB = 10
  GiB = 2
  HalfPages <- MCHalf
  MaxRequests = 4
  Machines <- MCMachines
  Executables <- MCExecutables
  Users <- MCUsers
  MiB = 4
  Top32 = 11
  TopMem = 14
  E820_MAX = 2
  LinuxJobs <- MCJobs
SPECIFICATION LoadSpec
INVARIANTS
  PageListRight
  EndsForItsReason
  LoaderMemoryRight
  ImagesRight
  HandoverRight
PROPERTIES
  StartupEnds
  LoaderMapKept
\* The start ends, in the watchdog or in a CPU that goes no further; the loader enters a kernel or
\* panics.
CHECK_DEADLOCK FALSE
