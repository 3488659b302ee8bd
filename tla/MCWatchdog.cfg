CONSTANTS
  NAps = 1
  Hard = {}
  Sils = {0, 2, 4}
  ANGER_LIMIT = 200
  ANGER_WARN = 100
  ANGER_STEP = 10
  X2Apic = FALSE
  Prompt = TRUE
SPECIFICATION Spec
INVARIANTS
  NoFalseAlarm
  AngerNeverWraps
\* The machine restarts after a panic.
CHECK_DEADLOCK FALSE
