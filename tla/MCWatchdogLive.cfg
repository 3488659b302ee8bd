CONSTANTS
  NAps = 2
  Hard = {}
  Sils = {0, 4}
  ANGER_LIMIT = 20
  ANGER_WARN = 5
  ANGER_STEP = 10
  X2Apic = TRUE
  Prompt = FALSE
SPECIFICATION FairSpec
PROPERTIES
  DeafCpuBitten
\* The machine restarts after a panic.
CHECK_DEADLOCK FALSE
