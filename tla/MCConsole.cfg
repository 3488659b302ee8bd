CONSTANTS
  bsp = bsp
  ap1 = ap1
  Cpus <- MCCpus
  Id <- MCId
  Marked <- MCMarked
  NBanks = 2
SPECIFICATION FairSpec
INVARIANTS
  LogRight
PROPERTIES
  BlockedOnlyInWindow
  PanicEnds
\* Every CPU may have been stopped by its handler.
CHECK_DEADLOCK FALSE
