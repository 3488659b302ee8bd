CONSTANTS
  bsp = bsp
  ap1 = ap1
  ap2 = ap2
  Cpus <- MCCpus
  Id <- MCId
  pages = 2
SPECIFICATION SceneSpec
INVARIANTS
  TypeOK
  NoDoubleAllocation
  UsedIsOwned
  OnlyExhaustionPanics
  MutualExclusion
PROPERTIES
  BlockedOnlyByExhaustion
  ImplementsLock
  SomeoneWins
\* A panic stops the machine.
CHECK_DEADLOCK FALSE
